---------------------------- MODULE Spec2Model ----------------------------
(***************************************************************************)
(* Model of minecon: the process supervisor of src/main.py                 *)
(* (class MinecraftServer: start, stop, restart, monitor_output) and the   *)
(* conversational wizards of src/discord_bot.py (setup_sessions,           *)
(* plugin_sessions, handle_setup_message, on_message).                     *)
(*                                                                         *)
(* The module holds several specifications over the same variables:        *)
(*   Spec       the supervisor of one registered server, its spawned       *)
(*              processes and their monitor_output reader threads;         *)
(*   SpecLive   start, stop and the reader threads, the threads being      *)
(*              scheduled (weak fairness);                                 *)
(*   SpecOrder  the supervisor with every spawned process writing output;  *)
(*   SpecJar    start() with download_server, for every server type;       *)
(*   SpecReg    the registry: create handlers, delete_server and           *)
(*              load_servers_from_db, from an empty database;              *)
(*   SpecBot    the chat bot's two session tables and message handlers;    *)
(*   SpecCmd    start, stop and send_command;                              *)
(*   SpecStop   stop() with its wait loop taken poll by poll;              *)
(*   SpecBuild  download_server's choice of a build from the answer of a   *)
(*              build server;                                              *)
(*   SpecPair   the bot with src/main.py behind API_BASE_URL;              *)
(*   SpecWait   the bot with handlers overlapping at step 1's request;     *)
(*   SpecLate   the bot with handlers overlapping at step 4's request;     *)
(*   SpecTwo    the supervisors of two registered servers;                 *)
(*   SpecHang   start() with endpoints that may never answer;              *)
(*   SpecCut    start() with downloads that may break off.                 *)
(* Each leaves unchanged the variables it does not model.                  *)
(***************************************************************************)
EXTENDS Integers, Sequences, FiniteSets, TLC

VARIABLES
    servers,        \* main.py `servers`: the ports registered in memory
    status,         \* MinecraftServer.status, per port
    process,        \* MinecraftServer.process, per port: 0 is None, else an index of procs
    db_status,      \* column `status` of table servers, per port
    server_logs,    \* rows of table server_logs, per port, in insertion order
    procs,          \* every process spawned so far (subprocess.Popen objects)
    op,             \* the control operation in progress on each server, and its position
    call,           \* the last control operation requested on each server, and its number
    ret,            \* the last return of a control operation on each server
    setup_sessions, \* MinecraftBot.setup_sessions: user -> creation wizard session
    plugin_sessions,\* MinecraftBot.plugin_sessions: user -> plugin wizard session
    ev,             \* the last chat event handled by the bot, with the bot's reaction
    nev,            \* number of chat events handled
    attrs,          \* MinecraftServer.server_type and .version, per port
    jars,           \* the jar files in the server's directory, per port
    acq,            \* the last call of download_server on each server, with its outcome
    reqs,           \* the create request of each client, and the position of its handler
    owner,          \* main.py `servers`: the MinecraftServer object registered per port, 0 if none
    objs,           \* number of MinecraftServer objects constructed so far
    saved,          \* columns version and auto_start of table servers, per port
    polls,          \* stop(): the polls of the process made in the wait loop, per port
    build,          \* download_server: a build server's answer and the URL made from it
    api,            \* the server behind API_BASE_URL: "any" server, or "main" for src/main.py
    asking          \* handle_setup_message suspended at `await self.api_request`, per user

supVars == <<servers, status, process, db_status, server_logs, procs, op, call, ret>>
botVars == <<setup_sessions, plugin_sessions, ev, nev>>
jarVars == <<attrs, jars, acq>>
regVars == <<reqs, owner, objs, saved>>
stopVars == <<polls>>
buildVars == <<build>>
peerVars == <<api>>
waitVars == <<asking>>
vars == <<servers, status, process, db_status, server_logs, procs, op, call, ret,
          setup_sessions, plugin_sessions, ev, nev, attrs, jars, acq,
          reqs, owner, objs, saved, polls, build, api, asking>>

(***************************************************************************)
(* Bounds of the model.                                                    *)
(***************************************************************************)
MaxCalls == 2       \* control operations invoked on one server
MaxEmit == 1        \* lines written by the spawned processes of one run
MaxEvents == 5      \* chat events handled by the bot

(***************************************************************************)
(* Part 1: the process supervisor (src/main.py).                           *)
(***************************************************************************)
\* The ports of the model.  Where one server is registered, on 25565, the
\* entries of 25566 are place holders that no action reads.
Ports == {25565, 25566}

Statuses == {"stopped", "starting", "running", "stopping", "error"}

\* An output line is modelled by what monitor_output looks at: whether it is
\* blank after strip(), and which of the searched substrings it contains.
Lines == {[blank |-> TRUE, marks |-> {}],
          [blank |-> FALSE, marks |-> {"Done"}],
          [blank |-> FALSE, marks |-> {"Done", "For help"}],
          [blank |-> FALSE, marks |-> {"Failed to start"}]}

Idle == [name |-> "none", pc |-> "idle", sret |-> 0]

\* MinecraftServer.add_log: INSERT INTO server_logs.
add_log(logs, p, text, level) ==
    [logs EXCEPT ![p] = Append(@, [text |-> text, level |-> level])]

\* monitor_output searching for "for help" in place of "For help".
LineVerdict_LowerCaseHelp(line) ==
    IF "Done" \in line.marks /\ "for help" \in line.marks THEN "running"
    ELSE IF "Failed to start" \in line.marks THEN "error"
    ELSE "none"

\* The branch of monitor_output taken for a line: the status it will set.
LineVerdict(line) ==
    IF "Done" \in line.marks /\ "For help" \in line.marks THEN "running"
    ELSE IF "Failed to start" \in line.marks THEN "error"
    ELSE "none"

\* The text of a log record: a message of the supervisor itself, or a line
\* of process output, kept as the searched substrings it contains and its
\* rank nr among the lines written by the processes of the run.
OwnText(msg) == [src |-> "supervisor", msg |-> msg, marks |-> {}, nr |-> 0]

OutputText(line) == [src |-> "process", msg |-> "", marks |-> line.marks, nr |-> line.nr]

\* subprocess.Popen(...): a new live process with an empty output pipe, and the
\* monitor_output thread started for it by the server object obj.
NewProc(p) ==
    [port |-> p, obj |-> owner[p], alive |-> TRUE, out |-> <<>>, emitted |-> 0, stdin |-> <<>>,
     terminated |-> FALSE, killed |-> FALSE, rd |-> "run", pend |-> "none", cur |-> 0]

\* No call of download_server has been made.
NoAcquisition ==
    [n |-> 0, net |-> [meta |-> "unused", dl |-> "unused", pack |-> "unused"], path |-> <<>>,
     fetched |-> 0]

\* No build server has been asked.
NoBuild ==
    [pc |-> "idle", st |-> "", resp |-> [all |-> <<>>, latest |-> ""],
     raised |-> FALSE, latest_build |-> "", url |-> <<>>]

\* MinecraftServer.__init__ followed by servers[port] = server.
SupInit ==
    /\ servers = {25565}
    /\ status = [p \in Ports |-> "stopped"]
    /\ process = [p \in Ports |-> 0]
    /\ db_status = [p \in Ports |-> "stopped"]
    /\ server_logs = [p \in Ports |-> <<>>]
    /\ procs = <<>>
    /\ op = [p \in Ports |-> Idle]
    /\ call = [p \in Ports |-> [op |-> "none", n |-> 0]]
    /\ ret = [p \in Ports |-> [n |-> 0, ok |-> FALSE, line |-> 0]]
    /\ polls = [p \in Ports |-> 0]

\* A request handler (start_server, stop_server, restart_server) calls the
\* operation `name` of the server on port p; operations on one server are
\* made one at a time.
Invoke(p, name) ==
    /\ p \in servers
    /\ op[p] = Idle
    /\ call[p].n < MaxCalls
    /\ call' = [call EXCEPT ![p] = [op |-> name, n |-> @.n + 1]]

\* The operation in progress returns `ok` from the return statement at
\* source line `line`.  n is the number of the call that returns.
Return(p, n, ok, line) ==
    /\ ret' = [ret EXCEPT ![p] = [n |-> n, ok |-> ok, line |-> line]]
    /\ op' = [op EXCEPT ![p] = Idle]

\* The value of a column of table servers for a port that has no row, and the
\* status of a port that has no registered server.
Absent == "absent"

\* update_status with an UPDATE that has no WHERE clause.
SaveStatus_EveryRow(db, p, s) == [q \in DOMAIN db |-> IF db[q] = Absent THEN db[q] ELSE s]

\* update_status, lines 87-94: UPDATE servers SET status = s WHERE port = p
\* changes the row if there is one.
SaveStatus(db, p, s) == IF db[p] = Absent THEN db ELSE [db EXCEPT ![p] = s]

\* MinecraftServer.update_status: the field and the row of table servers.
update_status(p, s) ==
    /\ status' = [status EXCEPT ![p] = s]
    /\ db_status' = SaveStatus(db_status, p, s)

----------------------------------------------------------------------------
(* MinecraftServer.start *)

\* start() with its guard left out.
StartGuard_Missing(p) == FALSE

\* start(), line 161.
StartGuard(p) == status[p] = "running"

\* start(), lines 160-169, made as call number n: the status check, then the
\* first log record; the caller then blocks in download_server().
StartEnter(p, name, n) ==
    IF StartGuard(p)
    THEN /\ Return(p, n, FALSE, 162)
         /\ UNCHANGED <<status, db_status, server_logs>>
    ELSE /\ server_logs' = add_log(server_logs, p, OwnText("Starting server in directory"), "INFO")
         /\ op' = [op EXCEPT ![p] = [name |-> name, pc |-> "start_run", sret |-> @.sret]]
         /\ UNCHANGED <<status, db_status, ret>>

StartCall(p) ==
    /\ Invoke(p, "start")
    /\ StartEnter(p, "start", call[p].n + 1)
    /\ UNCHANGED <<servers, process, procs, setup_sessions, plugin_sessions, ev, nev, jarVars, regVars, stopVars, buildVars, peerVars, waitVars>>

\* start(), lines 172-226, after download_server() has returned `jar`
\* ("none": None, a missing or an empty file; "ok": a usable jar; "raise": an
\* exception came out of it) and with Popen either raising or spawning.
StartFinish(p, jar, popen) ==
    \/ /\ jar = "none" /\ popen = "ok"
       /\ server_logs' = add_log(server_logs, p, OwnText("Failed to download server jar"), "ERROR")
       /\ Return(p, call[p].n, FALSE, 175)
       /\ UNCHANGED <<status, db_status, process, procs>>
    \/ /\ IF jar = "raise" THEN popen = "ok" ELSE jar = "ok" /\ popen = "raise"
       /\ server_logs' =
              IF jar = "raise"
              THEN add_log(server_logs, p, OwnText("Error starting server"), "ERROR")
              ELSE add_log(add_log(add_log(server_logs, p,
                                 OwnText("Using JAR file"), "INFO"),
                                 p, OwnText("Start command"), "INFO"),
                                 p, OwnText("Error starting server"), "ERROR")
       /\ update_status(p, "error")
       /\ Return(p, call[p].n, FALSE, 226)
       /\ UNCHANGED <<process, procs>>
    \/ /\ jar = "ok" /\ popen = "ok"
       /\ procs' = Append(procs, NewProc(p))
       /\ process' = [process EXCEPT ![p] = Len(procs) + 1]
       /\ update_status(p, "starting")
       /\ server_logs' = add_log(add_log(add_log(server_logs, p,
                             OwnText("Using JAR file"), "INFO"),
                             p, OwnText("Start command"), "INFO"),
                             p, OwnText("Server starting on port"), "INFO")
       /\ Return(p, call[p].n, TRUE, 220)

\* start(), lines 172-226, with the outcome of download_server() left open.
StartRun(p) ==
    /\ op[p].pc = "start_run"
    /\ \E jar \in {"none", "ok"}, popen \in {"raise", "ok"} : StartFinish(p, jar, popen)
    /\ UNCHANGED <<servers, call, setup_sessions, plugin_sessions, ev, nev, jarVars, regVars, stopVars, buildVars, peerVars, waitVars>>

----------------------------------------------------------------------------
(* MinecraftServer.download_server *)

\* REPOSITORIES, lines 33-40: the repository type of each known server type.
REPOSITORIES ==
    [t \in {"vanilla", "paper", "purpur", "fabric", "velocity", "mrpack"} |->
        CASE t = "vanilla" -> "mojang"
          [] t = "paper" -> "papermc"
          [] t = "purpur" -> "purpur"
          [] t = "fabric" -> "fabric"
          [] t = "velocity" -> "velocity"
          [] t = "mrpack" -> "modrinth"]

\* Server types a server may be created with; "forge" has no repository.
ServerTypes == {"vanilla", "paper", "purpur", "fabric", "velocity", "mrpack", "forge"}

Versions == {"1.20.1", "uploaded:pack.mrpack"}

\* _download_mrpack taking every version for an uploaded file.
IsUploaded_Any(ver) == TRUE

\* version.startswith("uploaded:")
IsUploaded(ver) == ver \in {"uploaded:pack.mrpack"}

\* What the network and the modpack library answer during one call:
\*   meta  the version lookups: resolved, version unknown, request failed;
\*   dl    the GET of the download URL: its status, or the request failed;
\*   pack  the uploaded modpack: installs a jar, installs none, is absent,
\*         or the library raises.
NetAnswers ==
    [meta : {"ok", "missing", "exception"},
     dl : {"200", "404", "exception"},
     pack : {"jar", "nojar", "absent", "exception"}]

\* No jar path: None.
NoPath == <<>>

\* f"{self.server_type}-{self.version}.jar", as the pair of its two parts.
JarName(st, ver) == <<st, ver>>

\* "fabric-server.jar", line 291.
FabricJar == <<"fabric", "server">>

\* The jar a modpack installs into the server directory.
PackJar == <<"mrpack", "server">>

\* download_server's handler with `except ValueError` in place of
\* `except Exception`.
Caught_ValueErrorOnly(exc) == exc = "ValueError"

\* download_server, line 318: except Exception.
Caught(exc) == exc \in {"ValueError", "LookupError", "RequestException"}

\* download_server leaves by an exception raised in its try block.
Failed(exc, dir, asked) ==
    [path |-> NoPath, dir |-> dir, fetched |-> 0, raised |-> ~Caught(exc), asked |-> asked]

\* _download_mrpack and _process_mrpack, lines 322-389.
download_mrpack(ver, dir, net) ==
    IF ~IsUploaded(ver) \/ net.pack \in {"absent", "exception"}
    THEN [path |-> NoPath, dir |-> dir, fetched |-> 0, raised |-> FALSE,
          asked |-> IF IsUploaded(ver) THEN {"pack"} ELSE {}]
    ELSE LET installed == IF net.pack = "jar" THEN dir \cup {PackJar} ELSE dir
         IN [path |-> IF installed = {} THEN NoPath ELSE CHOOSE f \in installed : TRUE,
             dir |-> installed, fetched |-> 0, raised |-> FALSE, asked |-> {"pack"}]

\* download_server, lines 228-320, for a server of type st and version ver
\* whose directory holds the jar files dir: the path returned (NoPath for
\* None), the directory afterwards, the number of downloads of a jar, whether
\* an exception leaves the function, and which answers were asked for.
download_server(st, ver, dir, net) ==
    IF st \notin DOMAIN REPOSITORIES
    THEN [path |-> NoPath, dir |-> dir, fetched |-> 0, raised |-> FALSE, asked |-> {}]
    ELSE IF REPOSITORIES[st] = "modrinth"
    THEN download_mrpack(ver, dir, net)
    ELSE IF JarName(st, ver) \in dir
    THEN [path |-> JarName(st, ver), dir |-> dir, fetched |-> 0, raised |-> FALSE,
          asked |-> {}]
    ELSE IF net.meta = "exception"
    THEN Failed("RequestException", dir, {"meta"})
    ELSE IF net.meta = "missing"
    THEN Failed(IF REPOSITORIES[st] = "mojang" THEN "ValueError" ELSE "LookupError",
                dir, {"meta"})
    ELSE IF net.dl = "exception"
    THEN Failed("RequestException", dir, {"meta", "dl"})
    ELSE IF net.dl # "200"
    THEN Failed("ValueError", dir, {"meta", "dl"})
    ELSE LET jar_path == IF REPOSITORIES[st] = "fabric" THEN FabricJar ELSE JarName(st, ver)
         IN [path |-> jar_path, dir |-> dir \cup {jar_path}, fetched |-> 1,
             raised |-> FALSE, asked |-> {"meta", "dl"}]

\* The answers a call asked for; the others are marked unused.
Asked(net, asked) ==
    [meta |-> IF "meta" \in asked THEN net.meta ELSE "unused",
     dl |-> IF "dl" \in asked THEN net.dl ELSE "unused",
     pack |-> IF "pack" \in asked THEN net.pack ELSE "unused"]

\* start(), lines 172-226, with download_server() carried out on the
\* server's directory.
StartRunJar(p) ==
    /\ op[p].pc = "start_run"
    /\ \E net \in NetAnswers, popen \in {"raise", "ok"} :
        LET r == download_server(attrs[p].server_type, attrs[p].version, jars[p], net)
            jar == IF r.raised THEN "raise" ELSE IF r.path = NoPath THEN "none" ELSE "ok"
        IN /\ StartFinish(p, jar, popen)
           /\ jars' = [jars EXCEPT ![p] = r.dir]
           /\ acq' = [acq EXCEPT ![p] =
                        [n |-> call[p].n, net |-> Asked(net, r.asked), path |-> r.path,
                         fetched |-> r.fetched]]
    /\ UNCHANGED <<servers, call, setup_sessions, plugin_sessions, ev, nev, attrs, regVars, stopVars, buildVars, peerVars, waitVars>>

\* start() with a download that fails part-way through the body: the GET of
\* the download URL answers 200 (306-308), open(jar_path, 'wb') creates the
\* file (310) and iter_content raises after some chunks or before the first
\* (311-312).  `except Exception` (318) logs and returns None; nothing
\* removes the file, so it stays at jar_path with the part of the body that
\* was written, and start() returns at line 175.
StartRunCut(p) ==
    /\ op[p].pc = "start_run"
    /\ LET r == download_server(attrs[p].server_type, attrs[p].version, jars[p],
                                [meta |-> "ok", dl |-> "200", pack |-> "absent"])
       IN /\ r.fetched = 1
          /\ StartFinish(p, "none", "ok")
          /\ jars' = [jars EXCEPT ![p] = @ \cup {r.path}]
          /\ acq' = [acq EXCEPT ![p] =
                       [n |-> call[p].n,
                        net |-> [meta |-> "ok", dl |-> "cut", pack |-> "unused"],
                        path |-> NoPath, fetched |-> 0]]
    /\ UNCHANGED <<servers, call, setup_sessions, plugin_sessions, ev, nev, attrs, regVars, stopVars, buildVars, peerVars, waitVars>>

\* download_server, lines 259-306, sending a request to an endpoint that
\* never answers.  requests.get is called without `timeout`, so the call
\* waits without limit: the caller of start() stays in it, at "get_wait",
\* and nothing of start() after download_server() is run.
StartRunSilent(p) ==
    /\ op[p].pc = "start_run"
    /\ \E net \in NetAnswers :
          "meta" \in download_server(attrs[p].server_type, attrs[p].version,
                                     jars[p], net).asked
    /\ op' = [op EXCEPT ![p].pc = "get_wait"]
    /\ UNCHANGED <<servers, status, process, db_status, server_logs, procs, call, ret,
                   botVars, jarVars, regVars, stopVars, buildVars, peerVars, waitVars>>

----------------------------------------------------------------------------
(* download_server: the build servers (paper, purpur, velocity) *)

MaxBuilds == 3      \* builds in the list a build server returns

\* The server types served by a build server.
BuildTypes == {"paper", "purpur", "velocity"}

Builds == {"b1", "b2"}

\* The lists of builds a build server may return.
BuildLists == UNION {[1..n -> Builds] : n \in 0..MaxBuilds}

\* What requests.get(builds_url).json() returns: for paper and velocity an
\* object whose "builds" is the list `all`; for purpur an object whose
\* "builds" holds the list `all` and the field `latest`.
BuildAnswers(st) ==
    IF st = "purpur"
    THEN [all : BuildLists, latest : Builds]
    ELSE [all : BuildLists, latest : {""}]

\* Lines 270, 278, 298: latest_build.  builds["builds"][-1] raises IndexError
\* on an empty list.
LatestBuild(st, resp) ==
    IF st = "purpur"
    THEN [raised |-> FALSE, latest_build |-> resp.latest]
    ELSE IF resp.all = <<>>
    THEN [raised |-> TRUE, latest_build |-> ""]
    ELSE [raised |-> FALSE, latest_build |-> resp.all[Len(resp.all)]]

\* Lines 272, 280, 300: download_url, as its parts.
DownloadUrl(st, ver, b) ==
    IF st = "purpur"
    THEN <<"purpur", ver, b, "downloads", <<"purpur", ver, b>>>>
    ELSE <<st, "versions", ver, "builds", b, "downloads", <<st, ver, b>>>>

\* The build named in a download URL.
BuildOf(url) == url[Len(url)][3]

\* download_server, lines 266-300, for a server of a build-server type whose
\* build server has answered.
ResolveBuild ==
    /\ build.pc = "answered"
    /\ LET l == LatestBuild(build.st, build.resp) IN
        build' = [build EXCEPT !.pc = "resolved", !.raised = l.raised,
                               !.latest_build = l.latest_build,
                               !.url = IF l.raised THEN <<>>
                                       ELSE DownloadUrl(build.st, "1.20.1", l.latest_build)]
    /\ UNCHANGED <<supVars, botVars, jarVars, regVars, stopVars, peerVars, waitVars>>

----------------------------------------------------------------------------
(* MinecraftServer.stop *)

\* stop(), line 426.
StopGuard(p) == process[p] = 0 \/ status[p] = "stopped"

\* restart() giving up when its stop() has failed.
StopLeave_AbortOnFailure(p, name, n, ok, line) ==
    IF name = "stop" \/ ~ok
    THEN Return(p, n, ok, line)
    ELSE /\ op' = [op EXCEPT ![p] = [name |-> name,
                                      pc |-> IF name = "delete" THEN "delete_rows" ELSE "sleep",
                                      sret |-> line]]
         /\ UNCHANGED ret

\* How stop() leaves: a stop() called by a request handler returns to it; a
\* stop() called by restart() returns into restart(), which drops the value
\* and sleeps; a stop() called by delete_server() returns into it, which drops
\* the value and goes on to remove the server.
StopLeave(p, name, n, ok, line) ==
    IF name = "stop"
    THEN Return(p, n, ok, line)
    ELSE /\ op' = [op EXCEPT ![p] = [name |-> name,
                                      pc |-> IF name = "delete" THEN "delete_rows" ELSE "sleep",
                                      sret |-> line]]
         /\ UNCHANGED ret

\* stop(), lines 426-434 and 455-457: the guard, then the write of the
\* shutdown directive.  Writing to the input pipe of a process that has
\* exited raises BrokenPipeError, which the except clause turns into a
\* logged failure; status and handle are left as they were.
StopEnter(p, name, n) ==
    IF StopGuard(p)
    THEN /\ StopLeave(p, name, n, FALSE, 427)
         /\ UNCHANGED <<status, db_status, server_logs, procs>>
    ELSE IF ~procs[process[p]].alive
    THEN /\ server_logs' = add_log(server_logs, p, OwnText("Error stopping server"), "ERROR")
         /\ StopLeave(p, name, n, FALSE, 457)
         /\ UNCHANGED <<status, db_status, procs>>
    ELSE /\ procs' = [procs EXCEPT ![process[p]].stdin = Append(@, "stop")]
         /\ update_status(p, "stopping")
         /\ op' = [op EXCEPT ![p] = [name |-> name, pc |-> "stop_wait", sret |-> 0]]
         /\ UNCHANGED <<server_logs, ret>>

StopCall(p) ==
    /\ Invoke(p, "stop")
    /\ StopEnter(p, "stop", call[p].n + 1)
    /\ UNCHANGED <<servers, process, setup_sessions, plugin_sessions, ev, nev, jarVars, regVars, stopVars, buildVars, peerVars, waitVars>>

\* stop(), lines 437-453: the polls have run out or found the process gone;
\* a process still alive is sent terminate() and, if it ignores that (`obeys`
\* false), kill().  Then the handle is cleared and the status is stopped.
StopWait(p) ==
    /\ op[p].pc = "stop_wait"
    /\ LET i == process[p] IN
        \E obeys \in BOOLEAN :
            /\ (~procs[i].alive => obeys)
            /\ procs' = IF procs[i].alive
                        THEN [procs EXCEPT ![i].alive = FALSE,
                                           ![i].terminated = TRUE,
                                           ![i].killed = ~obeys]
                        ELSE procs
    /\ process' = [process EXCEPT ![p] = 0]
    /\ update_status(p, "stopped")
    /\ server_logs' = add_log(server_logs, p, OwnText("Server stopped"), "INFO")
    /\ StopLeave(p, op[p].name, call[p].n, TRUE, 453)
    /\ UNCHANGED <<servers, call, setup_sessions, plugin_sessions, ev, nev, jarVars, regVars, stopVars, buildVars, peerVars, waitVars>>

----------------------------------------------------------------------------
(* MinecraftServer.stop, its wait in single steps *)

\* for _ in range(30), line 437.
Polls == 30

\* stop() sending its signals without looking at the process.
PollIsNone_Unchecked(i) == TRUE

\* self.process.poll() is None: process i has not exited.
PollIsNone(i) == procs[i].alive

\* stop(), lines 450-455: the handle is cleared, the status is stopped.
StopFinish(p) ==
    /\ process' = [process EXCEPT ![p] = 0]
    /\ update_status(p, "stopped")
    /\ server_logs' = add_log(server_logs, p, OwnText("Server stopped"), "INFO")
    /\ polls' = [polls EXCEPT ![p] = 0]
    /\ StopLeave(p, op[p].name, call[p].n, TRUE, 453)

\* stop(), lines 437-440: one turn of the wait loop; the loop is left when
\* the process has exited or after the last of the polls.
StopPoll(p) ==
    /\ op[p].pc = "stop_wait"
    /\ IF polls[p] < Polls /\ PollIsNone(process[p])
       THEN /\ polls' = [polls EXCEPT ![p] = @ + 1]
            /\ UNCHANGED op
       ELSE /\ op' = [op EXCEPT ![p].pc = "stop_term"]
            /\ UNCHANGED polls
    /\ UNCHANGED <<servers, status, process, db_status, server_logs, procs, call, ret,
                   botVars, jarVars, regVars, buildVars, peerVars, waitVars>>

\* stop(), lines 442-444: a process still alive is sent terminate(), and
\* stop() sleeps; one that has exited is sent nothing.
StopTerminate(p) ==
    /\ op[p].pc = "stop_term"
    /\ IF PollIsNone(process[p])
       THEN /\ procs' = [procs EXCEPT ![process[p]].terminated = TRUE]
            /\ op' = [op EXCEPT ![p].pc = "stop_kill"]
            /\ UNCHANGED <<status, process, db_status, server_logs, ret, polls>>
       ELSE /\ StopFinish(p)
            /\ UNCHANGED procs
    /\ UNCHANGED <<servers, call, botVars, jarVars, regVars, buildVars, peerVars, waitVars>>

\* stop(), lines 445-446: a process still alive after the sleep is sent
\* kill(), which ends it.
StopKill(p) ==
    /\ op[p].pc = "stop_kill"
    /\ procs' = IF PollIsNone(process[p])
                THEN [procs EXCEPT ![process[p]].killed = TRUE, ![process[p]].alive = FALSE]
                ELSE procs
    /\ StopFinish(p)
    /\ UNCHANGED <<servers, call, botVars, jarVars, regVars, buildVars, peerVars, waitVars>>

----------------------------------------------------------------------------
(* MinecraftServer.send_command *)

\* The command texts a client sends.
Commands == {"list", "stop"}

\* send_command() refusing only a server without a process handle.
SendGuard_HandleOnly(p) == process[p] = 0

\* send_command(), line 465.
SendGuard(p) == process[p] = 0 \/ status[p] # "running"

\* send_command(), lines 464-474: the guard, then the write of the command to
\* the input pipe of the process; writing to the pipe of a process that has
\* exited raises BrokenPipeError, which is logged and returned as failure.
SendCommand(p) ==
    /\ Invoke(p, "send_command")
    /\ \E command \in Commands :
        IF SendGuard(p)
        THEN /\ Return(p, call[p].n + 1, FALSE, 466)
             /\ UNCHANGED <<procs, server_logs>>
        ELSE IF ~procs[process[p]].alive
        THEN /\ server_logs' = add_log(server_logs, p, OwnText("Error sending command"), "ERROR")
             /\ Return(p, call[p].n + 1, FALSE, 474)
             /\ UNCHANGED procs
        ELSE /\ procs' = [procs EXCEPT ![process[p]].stdin = Append(@, command)]
             /\ Return(p, call[p].n + 1, TRUE, 471)
             /\ UNCHANGED server_logs
    /\ UNCHANGED <<servers, status, process, db_status, botVars, jarVars, regVars, stopVars, buildVars, peerVars, waitVars>>

----------------------------------------------------------------------------
(* MinecraftServer.restart *)

\* restart(), line 460: self.stop(), its result dropped.
RestartCall(p) ==
    /\ Invoke(p, "restart")
    /\ StopEnter(p, "restart", call[p].n + 1)
    /\ UNCHANGED <<servers, process, setup_sessions, plugin_sessions, ev, nev, jarVars, regVars, stopVars, buildVars, peerVars, waitVars>>

\* restart(), lines 461-462: after the settle delay, return self.start().
RestartStart(p) ==
    /\ op[p].pc = "sleep"
    /\ StartEnter(p, "restart", call[p].n)
    /\ UNCHANGED <<servers, process, procs, call, setup_sessions, plugin_sessions, ev, nev, jarVars, regVars, stopVars, buildVars, peerVars, waitVars>>

----------------------------------------------------------------------------
(* The spawned process and MinecraftServer.monitor_output *)

RECURSIVE Emitted(_)
Emitted(i) == IF i > Len(procs) THEN 0 ELSE procs[i].emitted + Emitted(i + 1)

\* Process i writes one more line to its combined output.
Emit(i) ==
    /\ procs[i].alive
    /\ \E line \in Lines :
        procs' = [procs EXCEPT
                    ![i].out = Append(@, [blank |-> line.blank, marks |-> line.marks,
                                          nr |-> Emitted(1) + 1]),
                    ![i].emitted = @ + 1]
    /\ UNCHANGED <<servers, status, process, db_status, server_logs, op, call, ret,
                   setup_sessions, plugin_sessions, ev, nev, jarVars, regVars, stopVars, buildVars, peerVars, waitVars>>

\* A process writes a line, the processes of a run writing MaxEmit lines in all.
ProcEmit(i) ==
    /\ i \in DOMAIN procs
    /\ Emitted(1) < MaxEmit
    /\ Emit(i)

\* A process writes a line, each process writing MaxEmit lines at most.
ProcEmitEach(i) ==
    /\ i \in DOMAIN procs
    /\ procs[i].emitted < MaxEmit
    /\ Emit(i)

\* The process exits: on the shutdown directive, on its own, or by crashing.
ProcExit(i) ==
    /\ i \in DOMAIN procs
    /\ procs[i].alive
    /\ procs' = [procs EXCEPT ![i].alive = FALSE]
    /\ UNCHANGED <<servers, status, process, db_status, server_logs, op, call, ret,
                   setup_sessions, plugin_sessions, ev, nev, jarVars, regVars, stopVars, buildVars, peerVars, waitVars>>

\* monitor_output with add_log(line) moved behind the status branches.
ReaderLog_Deferred(logs, p, line) == logs

\* monitor_output, lines 412-414: a line that is not blank after strip() is
\* logged.
ReaderLog(logs, p, line) ==
    IF line.blank THEN logs ELSE add_log(logs, p, OutputText(line), "INFO")

\* monitor_output, lines 411-414: readline() returns the next line; a line
\* that is not blank is logged, and a matching line leaves a status to set.
ReaderLine(i) ==
    /\ i \in DOMAIN procs
    /\ procs[i].rd = "run"
    /\ procs[i].out # <<>>
    /\ LET line == Head(procs[i].out)
           v == IF line.blank THEN "none" ELSE LineVerdict(line)
       IN /\ procs' = [procs EXCEPT ![i].out = Tail(@),
                                    ![i].rd = IF v = "none" THEN "run" ELSE "set",
                                    ![i].pend = v,
                                    ![i].cur = IF v = "none" THEN 0 ELSE line.nr]
          /\ server_logs' = ReaderLog(server_logs, procs[i].port, line)
    /\ UNCHANGED <<servers, status, process, db_status, op, call, ret,
                   setup_sessions, plugin_sessions, ev, nev, jarVars, regVars, stopVars, buildVars, peerVars, waitVars>>

\* monitor_output, lines 416-421: update_status and the record that follows.
\* The thread acts on the server object that started it: when another object
\* is registered on the port by now, only the row of the port is changed.
ReaderSet(i) ==
    /\ i \in DOMAIN procs
    /\ procs[i].rd = "set"
    /\ IF procs[i].obj = owner[procs[i].port]
       THEN update_status(procs[i].port, procs[i].pend)
       ELSE /\ db_status' = SaveStatus(db_status, procs[i].port, procs[i].pend)
            /\ UNCHANGED status
    /\ server_logs' = add_log(server_logs, procs[i].port,
                              IF procs[i].pend = "running"
                              THEN OwnText("Server started successfully")
                              ELSE OwnText("Server failed to start"), "INFO")
    /\ procs' = [procs EXCEPT ![i].rd = "run", ![i].pend = "none", ![i].cur = 0]
    /\ UNCHANGED <<servers, process, op, call, ret,
                   setup_sessions, plugin_sessions, ev, nev, jarVars, regVars, stopVars, buildVars, peerVars, waitVars>>

\* At end of stream (line 411: readline() returns '') the loop and the thread
\* end and nothing is written: a reader whose process has exited and whose
\* pipe is empty takes no further step.

----------------------------------------------------------------------------
(* The registry: create handlers, delete_server, load_servers_from_db *)

\* The clients that send create requests; each sends one in a run.  Flask
\* serves every request in a thread of its own (app.run, line 1268).
Requesters == {"r1", "r2"}

\* The ports that create, delete and load requests name.
RegPorts == {25565}

\* The routes that create a server: /create_server and /api/create_server
\* have the same body for a server that is not a modpack; /api/servers saves
\* the server a second time.
Routes == {"/create_server", "/api/servers"}

\* The server types named in create requests: one with a repository and one
\* without.
RequestedTypes == {"vanilla", "forge"}

NoRequestYet ==
    [pc |-> "idle", port |-> 0, route |-> "", version |-> "", server_type |-> "",
     auto_start |-> FALSE, obj |-> 0, code |-> 0, err |-> ""]

\* No row of table servers.
NoRow == [version |-> Absent, server_type |-> Absent, auto_start |-> FALSE]

\* The attributes of a port that has no registered server.
NoAttrs == [server_type |-> Absent, version |-> Absent, auto_start |-> FALSE]

\* The response to the create request of r for port p: the handler returns
\* and its parameters are gone.
Responded(p, obj, code, err) ==
    [NoRequestYet EXCEPT !.pc = "done", !.port = p, !.obj = obj, !.code = code, !.err = err]

\* Create handler, lines 649-662 (715-728, 770-784): the parameters are read
\* and checked (an empty version stands for a missing parameter), then the
\* port is looked up in `servers`.
CreateCheck(r, p) ==
    /\ reqs[r].pc = "idle"
    /\ \E route \in Routes, ver \in Versions \cup {""}, st \in RequestedTypes, au \in BOOLEAN :
        reqs' = [reqs EXCEPT ![r] =
                   IF ver = ""
                   THEN Responded(p, 0, 400, "missing")
                   ELSE IF p \in servers
                   THEN Responded(p, 0, 400, "conflict")
                   ELSE [@ EXCEPT !.pc = "construct", !.port = p, !.route = route,
                                  !.version = ver, !.server_type = st,
                                  !.auto_start = au]]
    /\ UNCHANGED <<supVars, botVars, jarVars, owner, objs, saved, stopVars, buildVars, peerVars, waitVars>>

\* Create handler, lines 665-669 (731-738): MinecraftServer(port, version,
\* server_type) saves a row with the defaults of __init__ (INSERT OR REPLACE,
\* lines 70-79), the attributes of the request are set on the object, and
\* the handler of /api/servers saves the row again.
CreateConstruct(r) ==
    /\ reqs[r].pc = "construct"
    /\ LET p == reqs[r].port IN
        /\ objs' = objs + 1
        /\ reqs' = [reqs EXCEPT ![r].pc = "register", ![r].obj = objs + 1]
        /\ db_status' = [db_status EXCEPT ![p] = "stopped"]
        /\ saved' = [saved EXCEPT ![p] =
                       [version |-> reqs[r].version, server_type |-> reqs[r].server_type,
                        auto_start |-> IF reqs[r].route = "/api/servers"
                                       THEN reqs[r].auto_start ELSE FALSE]]
    /\ UNCHANGED <<servers, status, process, server_logs, procs, op, call, ret,
                   botVars, jarVars, owner, stopVars, buildVars, peerVars, waitVars>>

\* Create handler, lines 671-677 (740-746): servers[port] = server, then
\* server.start() when auto_start is set; the response is success whatever
\* start() returns.  The step is taken while no control operation runs on the
\* server registered so far.
CreateRegister(r) ==
    /\ reqs[r].pc = "register"
    /\ LET p == reqs[r].port IN
        /\ op[p] = Idle
        /\ reqs[r].auto_start => call[p].n < MaxCalls
        /\ servers' = servers \cup {p}
        /\ owner' = [owner EXCEPT ![p] = reqs[r].obj]
        /\ status' = [status EXCEPT ![p] = "stopped"]
        /\ process' = [process EXCEPT ![p] = 0]
        /\ attrs' = [attrs EXCEPT ![p] = [server_type |-> reqs[r].server_type,
                                          version |-> reqs[r].version,
                                          auto_start |-> reqs[r].auto_start]]
        /\ IF reqs[r].auto_start
           THEN /\ call' = [call EXCEPT ![p] = [op |-> "create", n |-> @.n + 1]]
                /\ server_logs' = add_log(server_logs, p,
                                          OwnText("Starting server in directory"), "INFO")
                /\ op' = [op EXCEPT ![p] = [name |-> "create", pc |-> "start_run", sret |-> 0]]
           ELSE UNCHANGED <<call, server_logs, op>>
        /\ reqs' = [reqs EXCEPT ![r] = Responded(p, reqs[r].obj, 200, "")]
    /\ UNCHANGED <<db_status, procs, ret, botVars, jars, acq, objs, saved, stopVars, buildVars, peerVars, waitVars>>

\* delete_server, lines 908-913: the server is looked up; when its status is
\* not stopped, server.stop() is called and its result dropped.
DeleteCall(p) ==
    /\ Invoke(p, "delete")
    /\ IF status[p] # "stopped"
       THEN StopEnter(p, "delete", call[p].n + 1)
       ELSE /\ op' = [op EXCEPT ![p] = [name |-> "delete", pc |-> "delete_rows", sret |-> 0]]
            /\ UNCHANGED <<status, db_status, server_logs, procs, ret>>
    /\ UNCHANGED <<servers, process, botVars, jarVars, regVars, stopVars, buildVars, peerVars, waitVars>>

\* delete_server, lines 915-929: the directory is removed, the row of the
\* server and its log records are deleted, and the port leaves `servers`;
\* an exception (rm = "raise": rmtree fails) ends the handler with nothing
\* removed.
DeleteFinish(p) ==
    /\ op[p].pc = "delete_rows"
    /\ \E rm \in {"ok", "raise"} :
        IF rm = "raise"
        THEN /\ Return(p, call[p].n, FALSE, 929)
             /\ UNCHANGED <<servers, status, process, db_status, server_logs, jars,
                            attrs, owner, saved>>
        ELSE /\ jars' = [jars EXCEPT ![p] = {}]
             /\ db_status' = [db_status EXCEPT ![p] = Absent]
             /\ saved' = [saved EXCEPT ![p] = NoRow]
             /\ server_logs' = [server_logs EXCEPT ![p] = <<>>]
             /\ servers' = servers \ {p}
             /\ owner' = [owner EXCEPT ![p] = 0]
             /\ status' = [status EXCEPT ![p] = Absent]
             /\ process' = [process EXCEPT ![p] = 0]
             /\ attrs' = [attrs EXCEPT ![p] = NoAttrs]
             /\ Return(p, call[p].n, TRUE, 927)
    /\ UNCHANGED <<procs, call, botVars, acq, reqs, objs, stopVars, buildVars, peerVars, waitVars>>

\* The program is started again (lines 1252-1263) and load_servers_from_db
\* runs, lines 514-531: for the row of port p a MinecraftServer is
\* constructed, whose __init__ saves the row with the defaults (status
\* stopped, auto_start false); then the fields of the object are set from the
\* row as it was read, the object is registered, and it is started when
\* auto_start is set and the status read is stopped.  The processes and
\* threads of the earlier run are gone.
Rehydrate(p) ==
    /\ \A q \in Ports : op[q] = Idle
    /\ \A r \in Requesters : reqs[r].pc \in {"idle", "done"}
    /\ call[p].n < MaxCalls
    /\ call' = [call EXCEPT ![p] = [op |-> "load", n |-> @.n + 1]]
    /\ procs' = <<>>
    /\ process' = [process EXCEPT ![p] = 0]
    /\ IF db_status[p] = Absent
       THEN /\ servers' = servers \ {p}
            /\ owner' = [owner EXCEPT ![p] = 0]
            /\ status' = [status EXCEPT ![p] = Absent]
            /\ attrs' = [attrs EXCEPT ![p] = NoAttrs]
            /\ Return(p, call[p].n + 1, TRUE, 531)
            /\ UNCHANGED <<db_status, saved, server_logs, objs>>
       ELSE /\ objs' = objs + 1
            /\ servers' = servers \cup {p}
            /\ owner' = [owner EXCEPT ![p] = objs + 1]
            /\ db_status' = [db_status EXCEPT ![p] = "stopped"]
            /\ saved' = [saved EXCEPT ![p].auto_start = FALSE]
            /\ status' = [status EXCEPT ![p] = db_status[p]]
            /\ attrs' = [attrs EXCEPT ![p] = saved[p]]
            /\ IF saved[p].auto_start /\ db_status[p] = "stopped"
               THEN /\ server_logs' = add_log(server_logs, p,
                                              OwnText("Starting server in directory"), "INFO")
                    /\ op' = [op EXCEPT ![p] = [name |-> "load", pc |-> "start_run", sret |-> 0]]
                    /\ UNCHANGED ret
               ELSE /\ Return(p, call[p].n + 1, TRUE, 531)
                    /\ UNCHANGED server_logs
    /\ UNCHANGED <<botVars, jars, acq, reqs, stopVars, buildVars, peerVars, waitVars>>

----------------------------------------------------------------------------
(***************************************************************************)
(* Part 2: the chat bot's wizards (src/discord_bot.py).                    *)
(*                                                                         *)
(* A text (message content, file name, URL) is a sequence of characters,   *)
(* each a one-character string.  The Cyrillic letters of the bot's tokens  *)
(* are written by name: "cy_o" is the small letter o, "CY_O" the capital.  *)
(* A handler runs from its first statement to its return in one step, and  *)
(* the sends of replies to the chat complete.  The prefixed text command   *)
(* server_install_plugin (lines 188-226) has the body of the slash command *)
(* and is reached only through process_commands, that is by a user with no *)
(* session; it adds no behaviour and is left out.                          *)
(***************************************************************************)
Users == {"u1", "u2"}

\* The value None in a field that otherwise holds a text.
None == <<"None">>

UpperCase == <<"A", "B", "C", "D", "E", "F", "G", "H", "I", "J", "K", "L", "M",
               "N", "O", "P", "Q", "R", "S", "T", "U", "V", "W", "X", "Y", "Z",
               "CY_A", "CY_V", "CY_D", "CY_E", "CY_I", "CY_K", "CY_M", "CY_N",
               "CY_O", "CY_P", "CY_R", "CY_T", "CY_SOFT">>

LowerCase == <<"a", "b", "c", "d", "e", "f", "g", "h", "i", "j", "k", "l", "m",
               "n", "o", "p", "q", "r", "s", "t", "u", "v", "w", "x", "y", "z",
               "cy_a", "cy_v", "cy_d", "cy_e", "cy_i", "cy_k", "cy_m", "cy_n",
               "cy_o", "cy_p", "cy_r", "cy_t", "cy_soft">>

\* str.lower()
Lower(s) ==
    [i \in 1..Len(s) |->
        IF \E k \in 1..Len(UpperCase) : UpperCase[k] = s[i]
        THEN LowerCase[CHOOSE k \in 1..Len(UpperCase) : UpperCase[k] = s[i]]
        ELSE s[i]]

WhiteSpace == {" ", "\t", "\n", "\r"}

\* str.strip()
RECURSIVE Strip(_)
Strip(s) ==
    IF s = <<>> THEN s
    ELSE IF Head(s) \in WhiteSpace THEN Strip(Tail(s))
    ELSE IF s[Len(s)] \in WhiteSpace THEN Strip(SubSeq(s, 1, Len(s) - 1))
    ELSE s

Digits == <<"0", "1", "2", "3", "4", "5", "6", "7", "8", "9">>

IsDigit(c) == \E k \in 1..Len(Digits) : Digits[k] = c

RECURSIVE DigitsValue(_)
DigitsValue(s) ==
    IF s = <<>> THEN 0
    ELSE DigitsValue(SubSeq(s, 1, Len(s) - 1)) * 10
         + (CHOOSE k \in 1..Len(Digits) : Digits[k] = s[Len(s)]) - 1

\* int(text): surrounding white space and one sign are allowed, the rest must
\* be decimal digits; anything else raises ValueError (ok is FALSE).
ParseInt(text) ==
    LET t == Strip(text)
        signed == t # <<>> /\ Head(t) \in {"+", "-"}
        d == IF signed THEN Tail(t) ELSE t
    IN IF d # <<>> /\ \A i \in 1..Len(d) : IsDigit(d[i])
       THEN [ok |-> TRUE,
             val |-> IF signed /\ Head(t) = "-" THEN 0 - DigitsValue(d) ELSE DigitsValue(d)]
       ELSE [ok |-> FALSE, val |-> 0]

\* str.endswith(suffix)
EndsWith(s, suffix) ==
    /\ Len(s) >= Len(suffix)
    /\ SubSeq(s, Len(s) - Len(suffix) + 1, Len(s)) = suffix

\* filename.lower().endswith('.jar')
IsJarName(name) == EndsWith(Lower(name), <<".", "j", "a", "r">>)

\* url.split('/')[-1]
RECURSIVE LastSegment(_)
LastSegment(url) ==
    IF \E i \in 1..Len(url) : url[i] = "/"
    THEN LastSegment(SubSeq(url, (CHOOSE i \in 1..Len(url) : url[i] = "/") + 1, Len(url)))
    ELSE url

\* re.match(r'^\d+[MG]$', memory) with the unit letter left optional.
MemoryMatches_NoUnit(memory) ==
    /\ Len(memory) >= 1
    /\ \A i \in 1..(Len(memory) - 1) : IsDigit(memory[i])
    /\ (memory[Len(memory)] \in {"M", "G"} \/ IsDigit(memory[Len(memory)]))

\* re.match(r'^\d+[MG]$', memory), for a memory without line breaks.
MemoryMatches(memory) ==
    /\ Len(memory) >= 2
    /\ \A i \in 1..(Len(memory) - 1) : IsDigit(memory[i])
    /\ memory[Len(memory)] \in {"M", "G"}

\* ['отмена', 'cancel', 'stop']
CancelWords == {<<"cy_o", "cy_t", "cy_m", "cy_e", "cy_n", "cy_a">>,
                <<"c", "a", "n", "c", "e", "l">>,
                <<"s", "t", "o", "p">>}

\* ['подтвердить', 'ок', 'yes', 'ok']
ConfirmWords == {<<"cy_p", "cy_o", "cy_d", "cy_t", "cy_v", "cy_e", "cy_r", "cy_d",
                   "cy_i", "cy_t", "cy_soft">>,
                 <<"cy_o", "cy_k">>,
                 <<"y", "e", "s">>,
                 <<"o", "k">>}

\* valid_types of the creation wizard.
\* handle_setup_message, line 395, with one more word taken as a type.
valid_types_WithOk == {<<"v", "a", "n", "i", "l", "l", "a">>,
                       <<"p", "a", "p", "e", "r">>,
                       <<"p", "u", "r", "p", "u", "r">>,
                       <<"f", "a", "b", "r", "i", "c">>,
                       <<"m", "r", "p", "a", "c", "k">>,
                       <<"o", "k">>}

valid_types == {<<"v", "a", "n", "i", "l", "l", "a">>,
                <<"p", "a", "p", "e", "r">>,
                <<"p", "u", "r", "p", "u", "r">>,
                <<"f", "a", "b", "r", "i", "c">>,
                <<"m", "r", "p", "a", "c", "k">>}

MinPort == 25565
MaxPort == 26000

\* The destination folder the plugin wizard derives from the server type.
FolderOf(server_type) ==
    IF server_type \in {"paper", "purpur"} THEN "plugins"
    ELSE IF server_type = "fabric" THEN "mods"
    ELSE "plugins"

\* A JSON object is the set of its <<key, value>> pairs: dict.get(key, default)
Get(d, key, default) ==
    IF \E kv \in d : kv[1] = key THEN (CHOOSE kv \in d : kv[1] = key)[2] ELSE default

\* d[key] = value
Put(d, key, value) == [k \in DOMAIN d \cup {key} |-> IF k = key THEN value ELSE d[k]]

\* del d[key]
Del(d, key) == [k \in DOMAIN d \ {key} |-> d[k]]

EmptyDict == [k \in {} |-> 0]

----------------------------------------------------------------------------
(* What the outside world supplies: messages and the answers of the network *)

T_cancel == <<"c", "a", "n", "c", "e", "l">>
T_STOP == <<"S", "T", "O", "P">>
T_Otmena == <<"CY_O", "cy_t", "cy_m", "cy_e", "cy_n", "cy_a">>
T_25564 == <<"2", "5", "5", "6", "4">>
T_25565 == <<"2", "5", "5", "6", "5">>
T_26000 == <<"2", "6", "0", "0", "0">>
T_26001 == <<"2", "6", "0", "0", "1">>
T_Paper == <<"P", "a", "p", "e", "r">>
T_2G == <<"2", "G">>
T_OK == <<"O", "K">>
T_url == <<"h", "/", "P", ".", "J", "A", "R">>

Contents == {<<>>, T_cancel, T_STOP, T_Otmena, T_25564, T_25565, T_26000, T_26001,
             T_Paper, T_2G, T_OK, T_url}

F_jar == [filename |-> <<"m", ".", "j", "a", "r">>, bytes |-> <<"b">>]
F_txt == [filename |-> <<"m", ".", "t", "x", "t">>, bytes |-> <<"b">>]

\* A message: its content and its attachments.
Messages ==
    {[content |-> c, attachments |-> <<>>] : c \in Contents}
    \cup {[content |-> <<>>, attachments |-> <<f>>] : f \in {F_jar, F_txt}}
    \cup {[content |-> T_url, attachments |-> <<F_txt>>]}

NoMessage == [content |-> <<>>, attachments |-> <<>>]

\* Ports a user passes to /server_install_plugin.
PluginPorts == {25565}

\* Answers of api_request("/api/server/status/{port}"): (json, status).
StatusAnswers == {[status |-> 200, data |-> {<<"server_type", "fabric">>}],
                  [status |-> 200, data |-> {}],
                  [status |-> 404, data |-> {<<"error", "not found">>}]}

\* A segment of a URL path or of a route: a literal, an integer, or the
\* converter <int:port> of a route.
Lit(s) == [k |-> "lit", s |-> s, n |-> 0]

Num(n) == [k |-> "int", s |-> "", n |-> n]

IntPort == [k |-> "conv", s |-> "int:port", n |-> 0]

\* discord_bot.py, line 365: f"/api/server/status/{port}".
StatusEndpoint(port) == <<Lit("api"), Lit("server"), Lit("status"), Num(port)>>

\* main.py: the GET routes that take a port, and their view functions.
GetRoutes ==
    {[path |-> <<Lit("server_status"), IntPort>>, view |-> "server_status"],
     [path |-> <<Lit("api"), Lit("server"), IntPort, Lit("logs")>>, view |-> "get_logs"],
     [path |-> <<Lit("api"), Lit("server"), IntPort, Lit("status")>>, view |-> "get_status"],
     [path |-> <<Lit("server_files"), IntPort>>, view |-> "server_files"]}

\* Flask's matching of a URL path against a route.
Matches(path, endpoint) ==
    /\ Len(path) = Len(endpoint)
    /\ \A k \in 1..Len(path) :
          IF path[k].k = "conv" THEN endpoint[k].k = "int" ELSE path[k] = endpoint[k]

\* The port in a URL path.
PortIn(endpoint) == (CHOOSE k \in 1..Len(endpoint) : endpoint[k].k = "int")

\* api_request(endpoint) answered by main.py.  A path that matches no route
\* gets Flask's 404 page, which is not JSON: response.json() raises
\* ContentTypeError, an aiohttp.ClientError, and api_request returns status
\* 500 (lines 85-86).  get_status, main.py lines 871-885, answers 200 for a
\* registered port and 404 otherwise.
MainAnswer(endpoint) ==
    IF \A route \in GetRoutes : ~(route.view = "get_status" /\ Matches(route.path, endpoint))
    THEN [status |-> 500, data |-> {<<"error", "Network error">>}]
    ELSE IF endpoint[PortIn(endpoint)].n \in servers
    THEN [status |-> 200,
          data |-> {<<"server_type", attrs[endpoint[PortIn(endpoint)].n].server_type>>}]
    ELSE [status |-> 404, data |-> {<<"error", "Server not found">>}]

\* The answers api_request(endpoint) may get.
ApiAnswers(endpoint) ==
    IF api = "main" THEN {MainAnswer(endpoint)} ELSE StatusAnswers

\* Answers of api_request("/create_server", "POST", create_data).
CreateAnswers == {[status |-> 200], [status |-> 400]}

\* Answers of the GET in download_file: the response status and body; an
\* exception is handled as a status other than 200 is.
Downloads == {[status |-> 200, body |-> <<"b">>],
              [status |-> 200, body |-> <<>>],
              [status |-> 404, body |-> <<>>]}

\* Answers of api_upload.
UploadAnswers == {[status |-> 200], [status |-> 500]}

NoNet == [status |-> 0]

NoRequest == [to |-> "none"]

----------------------------------------------------------------------------
(* The handlers *)

\* The end of a handler: the session tables it leaves, and the record of the
\* event: who sent what, what the network answered, the reply sent to the
\* chat and the completion request made.
\* A handler suspended at line 365 (step 1) or at line 481 (step 4) holds
\* `session`, a reference to the dict it read from setup_sessions at line
\* 346, the message and the port parsed.  `live` says that this dict is still
\* the one in the table.
NotAsking == [busy |-> FALSE, step |-> 0, m |-> NoMessage, port |-> 0, live |-> FALSE]

\* `del self.setup_sessions[user_id]` detaches the dict a suspended handler
\* of that user holds: what it writes later is seen by nobody.
Detached(a, u, ss) == [a EXCEPT ![u].live = @ /\ u \in DOMAIN ss]

ReactFrom(a, u, kind, m, arg, net, reply, request, ss, ps) ==
    /\ nev < MaxEvents
    /\ nev' = nev + 1
    /\ setup_sessions' = ss
    /\ plugin_sessions' = ps
    /\ asking' = Detached(a, u, ss)
    /\ ev' = [kind |-> kind, user |-> u, msg |-> m, arg |-> arg, net |-> net,
              reply |-> reply, request |-> request]
    /\ UNCHANGED <<supVars, jarVars, regVars, stopVars, buildVars, peerVars>>

React(u, kind, m, arg, net, reply, request, ss, ps) ==
    ReactFrom(asking, u, kind, m, arg, net, reply, request, ss, ps)

\* ServerCreateCommand.callback, lines 914-919.
NewSetupSession ==
    [step |-> 1, port |-> 0, server_type |-> None, version |-> None, memory |-> T_2G]

\* ServerCreateCommand.callback with the insertion made before the check.
ServerCreateOutcome_InsertFirst(ss, u) ==
    LET t == Put(ss, u, NewSetupSession)
    IN IF u \in DOMAIN t
       THEN [sessions |-> t, reply |-> "setup_already_active"]
       ELSE [sessions |-> t, reply |-> "setup_step1"]

\* ServerCreateCommand.callback, lines 906-919: the table and the reply.
ServerCreateOutcome(ss, u) ==
    IF u \in DOMAIN ss
    THEN [sessions |-> ss, reply |-> "setup_already_active"]
    ELSE [sessions |-> Put(ss, u, NewSetupSession), reply |-> "setup_step1"]

\* /server_create
ServerCreateCommand(u) ==
    LET r == ServerCreateOutcome(setup_sessions, u)
    IN React(u, "server_create", NoMessage, 0, NoNet, r.reply, NoRequest,
             r.sessions, plugin_sessions)

\* ServerInstallPluginCommand.callback, lines 1033-1040.
NewPluginSession(port, server_data) ==
    [step |-> 1, port |-> port,
     server_type |-> Get(server_data, "server_type", "vanilla"),
     filename |-> None, file_content |-> None, folder |-> "None"]

\* /server_install_plugin <port>
ServerInstallPluginCommand(u) ==
    \E port \in PluginPorts : \E answer \in ApiAnswers(StatusEndpoint(port)) :
        IF answer.status # 200
        THEN React(u, "server_install_plugin", NoMessage, port, answer,
                   "server_not_found", NoRequest, setup_sessions, plugin_sessions)
        ELSE IF u \in DOMAIN plugin_sessions
        THEN React(u, "server_install_plugin", NoMessage, port, answer,
                   "plugin_already_active", NoRequest, setup_sessions, plugin_sessions)
        ELSE React(u, "server_install_plugin", NoMessage, port, answer,
                   "plugin_step1", NoRequest, setup_sessions,
                   Put(plugin_sessions, u, NewPluginSession(port, answer.data)))

\* A reply of the creation wizard that leaves the tables as they are.
SetupReply(u, m, net, reply) ==
    React(u, "message", m, 0, net, reply, NoRequest, setup_sessions, plugin_sessions)

\* A reply of the creation wizard after session[...] = ... assignments.
SetupAdvance(u, m, net, reply, session) ==
    React(u, "message", m, 0, net, reply, NoRequest,
          Put(setup_sessions, u, session), plugin_sessions)

\* handle_setup_message, line 360, with the bounds excluded from the range.
PortOutOfRange_Exclusive(port) == port <= MinPort \/ port >= MaxPort

\* handle_setup_message, line 360.
PortOutOfRange(port) == port < MinPort \/ port > MaxPort

\* handle_setup_message, lines 356-391: step 1, the port.
SetupStep1(u, m, session, content) ==
    LET parsed == ParseInt(content)
    IN IF ~parsed.ok
       THEN SetupReply(u, m, NoNet, "bad_port_format")
       ELSE IF PortOutOfRange(parsed.val)
       THEN SetupReply(u, m, NoNet, "port_out_of_range")
       ELSE \E answer \in ApiAnswers(StatusEndpoint(parsed.val)) :
               IF answer.status = 200
               THEN SetupReply(u, m, answer, "port_in_use")
               ELSE SetupAdvance(u, m, answer, "setup_step2",
                                 [session EXCEPT !.port = parsed.val, !.step = 2])

\* handle_setup_message, lines 346-365, run by a handler of its own up to
\* `await self.api_request(...)` of step 1: the session is read, the content
\* is no cancel word, the port parses and is in range, the request is sent.
\* discord.py runs every on_message in a task of its own, so other handlers
\* run while this one waits for the answer.
SetupStep1Ask(u) ==
    /\ u \in DOMAIN setup_sessions
    /\ ~asking[u].busy
    /\ setup_sessions[u].step = 1
    /\ \E m \in Messages :
          LET content == Strip(m.content)
              parsed == ParseInt(content)
          IN /\ Lower(content) \notin CancelWords
             /\ parsed.ok
             /\ ~PortOutOfRange(parsed.val)
             /\ asking' = [asking EXCEPT ![u] = [busy |-> TRUE, step |-> 1, m |-> m,
                                                 port |-> parsed.val, live |-> TRUE]]
    /\ UNCHANGED <<supVars, botVars, jarVars, regVars, stopVars, buildVars, peerVars>>

\* handle_setup_message, lines 365-391, resumed with the answer: on 200 the
\* port is refused; otherwise session['port'] and session['step'] = 2 are
\* written into the dict the handler holds, whatever its step is by now.
SetupStep1Answer(u) ==
    /\ asking[u].busy
    /\ asking[u].step = 1
    /\ \E answer \in ApiAnswers(StatusEndpoint(asking[u].port)) :
          LET a == [asking EXCEPT ![u] = NotAsking]
          IN IF answer.status = 200
             THEN ReactFrom(a, u, "message", asking[u].m, 0, answer, "port_in_use",
                            NoRequest, setup_sessions, plugin_sessions)
             ELSE ReactFrom(a, u, "message", asking[u].m, 0, answer, "setup_step2",
                            NoRequest,
                            IF asking[u].live
                            THEN Put(setup_sessions, u,
                                     [setup_sessions[u] EXCEPT !.port = asking[u].port,
                                                               !.step = 2])
                            ELSE setup_sessions,
                            plugin_sessions)

\* handle_setup_message, lines 393-437: step 2, the server type.
SetupStep2(u, m, session, content) ==
    LET server_type == Lower(content)
    IN IF server_type \notin valid_types
       THEN SetupReply(u, m, NoNet, "unknown_type")
       ELSE SetupAdvance(u, m, NoNet, "setup_step3",
                         [session EXCEPT !.server_type = server_type, !.step = 3])

\* handle_setup_message, lines 439-461: step 3, the version.
SetupStep3(u, m, session, content) ==
    LET version == Strip(content)
    IN IF version = <<>>
       THEN SetupReply(u, m, NoNet, "need_version")
       ELSE SetupAdvance(u, m, NoNet, "setup_step4",
                         [session EXCEPT !.version = version, !.step = 4])

\* The creation wizard's table after its completion request, with the
\* session dropped only when the request succeeded.
SetupCompleted_KeepOnFailure(ss, u, code) == IF code = 200 THEN Del(ss, u) ELSE ss

\* handle_setup_message, line 503: the table after the completion request.
SetupCompleted(ss, u, code) == Del(ss, u)

\* handle_setup_message, lines 463-504: step 4, the memory, and the creation.
SetupStep4(u, m, session, content) ==
    LET memory == Strip(content)
    IN IF ~MemoryMatches(memory)
       THEN SetupReply(u, m, NoNet, "bad_memory")
       ELSE \E answer \in CreateAnswers :
               React(u, "message", m, 0, answer,
                     IF answer.status = 200 THEN "created" ELSE "create_failed",
                     [to |-> "/create_server",
                      data |-> [port |-> session.port, version |-> session.version,
                                server_type |-> session.server_type,
                                memory |-> memory, auto_start |-> TRUE]],
                     SetupCompleted(setup_sessions, u, answer.status), plugin_sessions)

\* handle_setup_message, lines 346-481, run by a handler of its own up to
\* `await self.api_request("/create_server", ...)` of step 4: the memory
\* matches and is written into the session, the request is sent, and the
\* handler waits for the answer while other handlers run.
SetupStep4Ask(u) ==
    /\ u \in DOMAIN setup_sessions
    /\ ~asking[u].busy
    /\ setup_sessions[u].step = 4
    /\ \E m \in Messages :
          LET session == setup_sessions[u]
              memory == Strip(Strip(m.content))
          IN /\ Lower(Strip(m.content)) \notin CancelWords
             /\ MemoryMatches(memory)
             /\ ReactFrom([asking EXCEPT ![u] = [busy |-> TRUE, step |-> 4, m |-> m,
                                                 port |-> session.port, live |-> TRUE]],
                          u, "message", m, 0, NoNet, "none",
                          [to |-> "/create_server",
                           data |-> [port |-> session.port, version |-> session.version,
                                     server_type |-> session.server_type,
                                     memory |-> memory, auto_start |-> TRUE]],
                          Put(setup_sessions, u, [session EXCEPT !.memory = memory]),
                          plugin_sessions)

\* handle_setup_message, lines 483-509, resumed with the answer: the result
\* is sent to the chat and `del self.setup_sessions[user_id]` (line 503)
\* removes whatever session the user has by now.  When the user has none,
\* del raises KeyError; the except clause (506-509) sends the error and runs
\* the same del, whose KeyError leaves the handler.
SetupStep4Answer(u) ==
    /\ asking[u].busy
    /\ asking[u].step = 4
    /\ \E answer \in CreateAnswers :
          LET a == [asking EXCEPT ![u] = NotAsking]
          IN IF u \in DOMAIN setup_sessions
             THEN ReactFrom(a, u, "message", asking[u].m, 0, answer,
                            IF answer.status = 200 THEN "created" ELSE "create_failed",
                            NoRequest, Del(setup_sessions, u), plugin_sessions)
             ELSE ReactFrom(a, u, "message", asking[u].m, 0, answer, "KeyError",
                            NoRequest, setup_sessions, plugin_sessions)

\* handle_setup_message, lines 346-504, for a user who has a creation session.
handle_setup_message(u, m) ==
    LET session == setup_sessions[u]
        content == Strip(m.content)
    IN IF Lower(content) \in CancelWords
       THEN React(u, "message", m, 0, NoNet, "setup_cancelled", NoRequest,
                  Del(setup_sessions, u), plugin_sessions)
       ELSE IF session.step = 1 THEN SetupStep1(u, m, session, content)
       ELSE IF session.step = 2 THEN SetupStep2(u, m, session, content)
       ELSE IF session.step = 3 THEN SetupStep3(u, m, session, content)
       ELSE SetupStep4(u, m, session, content)

\* A reply of the plugin wizard followed by del self.plugin_sessions[user_id].
PluginAbort(u, m, net, reply) ==
    React(u, "message", m, 0, net, reply, NoRequest,
          setup_sessions, Del(plugin_sessions, u))

\* on_message, lines 542-552 and 581-591: the file is taken, step 2 is next.
PluginAccept(u, m, net, session, filename, file_content) ==
    React(u, "message", m, 0, net, "plugin_step2", NoRequest, setup_sessions,
          Put(plugin_sessions, u,
              [session EXCEPT !.filename = filename, !.file_content = file_content,
                              !.step = 2, !.folder = FolderOf(session.server_type)]))

\* `not x` for a text or bytes value x that may be None.
Falsy(x) == x = None \/ x = <<>>

\* on_message, lines 530-608: step 1 of the plugin wizard, the file.
PluginStep1(u, m, session) ==
    LET url == Strip(m.content)
    IN IF m.attachments # <<>>
       THEN LET attachment == m.attachments[1]
            IN IF ~IsJarName(attachment.filename)
               THEN PluginAbort(u, m, NoNet, "must_be_jar")
               ELSE PluginAccept(u, m, NoNet, session, attachment.filename, attachment.bytes)
       ELSE IF url # <<>>
       THEN \E answer \in Downloads :
               LET filename == IF answer.status = 200 THEN LastSegment(url) ELSE None
                   file_content == IF answer.status = 200 THEN answer.body ELSE None
               IN IF Falsy(filename) \/ Falsy(file_content)
                  THEN PluginAbort(u, m, answer, "download_failed")
                  ELSE IF ~IsJarName(filename)
                  THEN PluginAbort(u, m, answer, "must_be_jar")
                  ELSE PluginAccept(u, m, answer, session, filename, file_content)
       ELSE React(u, "message", m, 0, NoNet, "need_file_or_url", NoRequest,
                  setup_sessions, plugin_sessions)

\* on_message, line 612, taking every content that is not empty.
Confirmed_AnyText(content) == content # <<>>

\* on_message, line 612.
Confirmed(content) == Lower(content) \in ConfirmWords

\* on_message, lines 610-646: step 2 of the plugin wizard, the confirmation.
PluginStep2(u, m, session) ==
    IF Confirmed(m.content)
    THEN \E answer \in UploadAnswers :
            React(u, "message", m, 0, answer,
                  IF answer.status = 200 THEN "installed" ELSE "install_failed",
                  [to |-> "upload", port |-> session.port,
                   file_data |-> [bytes |-> session.file_content,
                                  filename |-> session.filename,
                                  path |-> session.folder]],
                  setup_sessions, Del(plugin_sessions, u))
    ELSE PluginAbort(u, m, NoNet, "install_cancelled")

\* on_message, lines 511-648.  A user with a creation session is served by
\* handle_setup_message, which returns True; otherwise a user with a plugin
\* session is served by the plugin wizard; otherwise the message goes to
\* process_commands, which touches no session.
on_message(u) ==
    \E m \in Messages :
        IF u \in DOMAIN setup_sessions
        THEN handle_setup_message(u, m)
        ELSE IF u \in DOMAIN plugin_sessions
        THEN LET session == plugin_sessions[u]
             IN IF Lower(m.content) \in CancelWords
                THEN PluginAbort(u, m, NoNet, "plugin_cancelled")
                ELSE IF session.step = 1 THEN PluginStep1(u, m, session)
                ELSE PluginStep2(u, m, session)
        ELSE React(u, "message", m, 0, NoNet, "no_session", NoRequest,
                   setup_sessions, plugin_sessions)

BotIdle ==
    /\ setup_sessions = EmptyDict
    /\ plugin_sessions = EmptyDict
    /\ ev = [kind |-> "none", user |-> "", msg |-> NoMessage, arg |-> 0, net |-> NoNet,
             reply |-> "none", request |-> NoRequest]
    /\ nev = 0
    /\ asking = [u \in Users |-> NotAsking]

\* The server registered at start: a vanilla server with an empty directory.
\* One server registered, by no create request of the run.
RegIdle ==
    /\ reqs = [r \in Requesters |-> NoRequestYet]
    /\ owner = [p \in Ports |-> 1]
    /\ objs = 1
    /\ saved = [p \in Ports |-> [version |-> "1.20.1", server_type |-> "vanilla",
                                 auto_start |-> FALSE]]

JarIdle ==
    /\ attrs = [p \in Ports |-> [server_type |-> "vanilla", version |-> "1.20.1",
                                 auto_start |-> FALSE]]
    /\ jars = [p \in Ports |-> {}]
    /\ acq = [p \in Ports |-> NoAcquisition]

BuildIdle == build = NoBuild /\ api = "any"

Init == SupInit /\ BotIdle /\ JarIdle /\ RegIdle /\ BuildIdle

Next ==
    \/ \E p \in Ports : StartCall(p)
    \/ \E p \in Ports : StartRun(p)
    \/ \E p \in Ports : StopCall(p)
    \/ \E p \in Ports : StopWait(p)
    \/ \E p \in Ports : RestartCall(p)
    \/ \E p \in Ports : RestartStart(p)
    \/ \E i \in 1..MaxCalls : ProcEmit(i)
    \/ \E i \in 1..MaxCalls : ProcExit(i)
    \/ \E i \in 1..MaxCalls : ReaderLine(i)
    \/ \E i \in 1..MaxCalls : ReaderSet(i)

Spec == Init /\ [][Next]_vars

\* threading.Thread(target=self.monitor_output).start(), line 217: the reader
\* thread of every spawned process is scheduled and keeps running.
ReaderFairness ==
    \A i \in 1..MaxCalls : WF_vars(ReaderLine(i) \/ ReaderSet(i))

\* The supervisor under start() and stop() calls.  restart() is a stop()
\* followed by a start() (lines 458-462) and is left to Spec.
NextLive ==
    \/ \E p \in Ports : StartCall(p)
    \/ \E p \in Ports : StartRun(p)
    \/ \E p \in Ports : StopCall(p)
    \/ \E p \in Ports : StopWait(p)
    \/ \E i \in 1..MaxCalls : ProcEmit(i)
    \/ \E i \in 1..MaxCalls : ProcExit(i)
    \/ \E i \in 1..MaxCalls : ReaderLine(i)
    \/ \E i \in 1..MaxCalls : ReaderSet(i)

\* The supervisor with its reader threads running.
SpecLive == Init /\ [][NextLive]_vars /\ ReaderFairness

\* The supervisor under start(), stop() and send_command() calls.
NextCmd ==
    \/ \E p \in Ports : StartCall(p)
    \/ \E p \in Ports : StartRun(p)
    \/ \E p \in Ports : StopCall(p)
    \/ \E p \in Ports : StopWait(p)
    \/ \E p \in Ports : SendCommand(p)
    \/ \E i \in 1..MaxCalls : ProcEmit(i)
    \/ \E i \in 1..MaxCalls : ProcExit(i)
    \/ \E i \in 1..MaxCalls : ReaderLine(i)
    \/ \E i \in 1..MaxCalls : ReaderSet(i)

SpecCmd == Init /\ [][NextCmd]_vars

\* start() and stop() with the wait of stop() taken in single steps.
NextStop ==
    \/ \E p \in Ports : StartCall(p)
    \/ \E p \in Ports : StartRun(p)
    \/ \E p \in Ports : StopCall(p)
    \/ \E p \in Ports : StopPoll(p)
    \/ \E p \in Ports : StopTerminate(p)
    \/ \E p \in Ports : StopKill(p)
    \/ \E i \in 1..MaxCalls : ProcExit(i)

SpecStop == Init /\ [][NextStop]_vars

\* A server of a build-server type whose build server has answered.
InitBuild ==
    /\ SupInit /\ BotIdle /\ JarIdle /\ RegIdle
    /\ api = "any"
    /\ \E st \in BuildTypes : \E resp \in BuildAnswers(st) :
          build = [NoBuild EXCEPT !.pc = "answered", !.st = st, !.resp = resp]

NextBuild == ResolveBuild

SpecBuild == InitBuild /\ [][NextBuild]_vars

\* The supervisor with every spawned process writing output.
NextOrder ==
    \/ \E p \in Ports : StartCall(p)
    \/ \E p \in Ports : StartRun(p)
    \/ \E p \in Ports : StopCall(p)
    \/ \E p \in Ports : StopWait(p)
    \/ \E p \in Ports : RestartCall(p)
    \/ \E p \in Ports : RestartStart(p)
    \/ \E i \in 1..MaxCalls : ProcEmitEach(i)
    \/ \E i \in 1..MaxCalls : ProcExit(i)
    \/ \E i \in 1..MaxCalls : ReaderLine(i)
    \/ \E i \in 1..MaxCalls : ReaderSet(i)

SpecOrder == Init /\ [][NextOrder]_vars

NextBot ==
    \/ \E u \in Users : ServerCreateCommand(u)
    \/ \E u \in Users : ServerInstallPluginCommand(u)
    \/ \E u \in Users : on_message(u)

SpecBot == Init /\ [][NextBot]_vars

\* The bot with src/main.py behind API_BASE_URL, one server registered.
InitPair ==
    /\ SupInit /\ BotIdle /\ JarIdle /\ RegIdle
    /\ build = NoBuild /\ api = "main"

SpecPair == InitPair /\ [][NextBot]_vars

\* The bot with the handlers of one user's messages overlapping at the
\* request of step 1 of the creation wizard.
NextWait ==
    \/ NextBot
    \/ \E u \in Users : SetupStep1Ask(u)
    \/ \E u \in Users : SetupStep1Answer(u)

SpecWait == Init /\ [][NextWait]_vars

\* The bot with handlers of one user's messages overlapping at the request
\* of step 4 of the creation wizard.
NextLate ==
    \/ NextBot
    \/ \E u \in Users : SetupStep4Ask(u)
    \/ \E u \in Users : SetupStep4Answer(u)

\* A user has answered the first three steps of the creation wizard.
InitLate ==
    /\ SupInit /\ JarIdle /\ RegIdle /\ BuildIdle
    /\ setup_sessions \in
          {Put(EmptyDict, u, [step |-> 4, port |-> 25565, server_type |-> Lower(T_Paper),
                              version |-> T_2G, memory |-> T_2G]) : u \in Users}
    /\ plugin_sessions = EmptyDict
    /\ ev = [kind |-> "none", user |-> "", msg |-> NoMessage, arg |-> 0, net |-> NoNet,
             reply |-> "none", request |-> NoRequest]
    /\ nev = 0
    /\ asking = [u \in Users |-> NotAsking]

SpecLate == InitLate /\ [][NextLate]_vars

\* A server of any type and version, with an empty directory.
InitJar ==
    /\ SupInit /\ BotIdle /\ BuildIdle
    /\ attrs \in [Ports -> [server_type : ServerTypes, version : Versions,
                            auto_start : {FALSE}]]
    /\ \A p \in Ports \ servers : attrs[p].server_type = "vanilla" /\ attrs[p].version = "1.20.1"
    /\ reqs = [r \in Requesters |-> NoRequestYet]
    /\ owner = [p \in Ports |-> 1]
    /\ objs = 1
    /\ saved = attrs
    /\ jars = [p \in Ports |-> {}]
    /\ acq = [p \in Ports |-> NoAcquisition]

NextJar ==
    \/ \E p \in Ports : StartCall(p)
    \/ \E p \in Ports : StartRunJar(p)

SpecJar == InitJar /\ [][NextJar]_vars

\* Two servers are registered, on 25565 and 25566, each with its own
\* MinecraftServer object, both stopped.
InitTwo ==
    /\ servers = Ports
    /\ status = [p \in Ports |-> "stopped"]
    /\ process = [p \in Ports |-> 0]
    /\ db_status = [p \in Ports |-> "stopped"]
    /\ server_logs = [p \in Ports |-> <<>>]
    /\ procs = <<>>
    /\ op = [p \in Ports |-> Idle]
    /\ call = [p \in Ports |-> [op |-> "none", n |-> 0]]
    /\ ret = [p \in Ports |-> [n |-> 0, ok |-> FALSE, line |-> 0]]
    /\ polls = [p \in Ports |-> 0]
    /\ BotIdle /\ JarIdle /\ BuildIdle
    /\ reqs = [r \in Requesters |-> NoRequestYet]
    /\ owner = [p \in Ports |-> IF p = 25565 THEN 1 ELSE 2]
    /\ objs = 2
    /\ saved = [p \in Ports |-> [version |-> "1.20.1", server_type |-> "vanilla",
                                 auto_start |-> FALSE]]

\* The control operations invoked on the two servers together are MaxCalls
\* at most.
CallsLeft == call[25565].n + call[25566].n < MaxCalls

\* The request handlers start_server, stop_server, restart_server and
\* send_command, for either server.
StartOf(p) == CallsLeft /\ StartCall(p)
StopOf(p) == CallsLeft /\ StopCall(p)
RestartOf(p) == CallsLeft /\ RestartCall(p)
CommandTo(p) == CallsLeft /\ SendCommand(p)

\* The control operations and the reader threads of both servers; the
\* processes write output and end when stop() ends them.
NextTwo ==
    \/ \E p \in Ports : StartOf(p)
    \/ \E p \in Ports : StartRun(p)
    \/ \E p \in Ports : StopOf(p)
    \/ \E p \in Ports : StopWait(p)
    \/ \E p \in Ports : RestartOf(p)
    \/ \E p \in Ports : RestartStart(p)
    \/ \E p \in Ports : CommandTo(p)
    \/ \E i \in 1..(2 * MaxCalls) : ProcEmit(i)
    \/ \E i \in 1..(2 * MaxCalls) : ReaderLine(i)
    \/ \E i \in 1..(2 * MaxCalls) : ReaderSet(i)

SpecTwo == InitTwo /\ [][NextTwo]_vars

\* start() with download_server, a download ending with the body or before.
NextCut ==
    \/ \E p \in Ports : StartCall(p)
    \/ \E p \in Ports : StartRunJar(p)
    \/ \E p \in Ports : StartRunCut(p)

SpecCut == InitJar /\ [][NextCut]_vars

\* start() with download_server, the endpoints answering or staying silent;
\* a thread that can run does run.
NextHang ==
    \/ \E p \in Ports : StartCall(p)
    \/ \E p \in Ports : StartRunJar(p)
    \/ \E p \in Ports : StartRunSilent(p)

SpecHang == InitJar /\ [][NextHang]_vars /\ WF_vars(NextHang)

\* The program started on an empty database: no server is registered.
InitReg ==
    /\ servers = {}
    /\ status = [p \in Ports |-> Absent]
    /\ process = [p \in Ports |-> 0]
    /\ db_status = [p \in Ports |-> Absent]
    /\ server_logs = [p \in Ports |-> <<>>]
    /\ procs = <<>>
    /\ op = [p \in Ports |-> Idle]
    /\ call = [p \in Ports |-> [op |-> "none", n |-> 0]]
    /\ ret = [p \in Ports |-> [n |-> 0, ok |-> FALSE, line |-> 0]]
    /\ polls = [p \in Ports |-> 0]
    /\ BuildIdle
    /\ BotIdle
    /\ attrs = [p \in Ports |-> NoAttrs]
    /\ jars = [p \in Ports |-> {}]
    /\ acq = [p \in Ports |-> NoAcquisition]
    /\ reqs = [r \in Requesters |-> NoRequestYet]
    /\ owner = [p \in Ports |-> 0]
    /\ objs = 0
    /\ saved = [p \in Ports |-> NoRow]

\* Servers are created, started, stopped and deleted, and the program is
\* started again.
NextReg ==
    \/ \E r \in Requesters, p \in RegPorts : CreateCheck(r, p)
    \/ \E r \in Requesters : CreateConstruct(r)
    \/ \E r \in Requesters : CreateRegister(r)
    \/ \E p \in RegPorts : DeleteCall(p)
    \/ \E p \in RegPorts : DeleteFinish(p)
    \/ \E p \in RegPorts : Rehydrate(p)
    \/ \E p \in RegPorts : StartCall(p)
    \/ \E p \in RegPorts : StartRun(p)
    \/ \E p \in RegPorts : StopCall(p)
    \/ \E p \in RegPorts : StopWait(p)
    \/ \E i \in 1..MaxCalls : ProcEmit(i)
    \/ \E i \in 1..MaxCalls : ProcExit(i)
    \/ \E i \in 1..MaxCalls : ReaderLine(i)
    \/ \E i \in 1..MaxCalls : ReaderSet(i)

SpecReg == InitReg /\ [][NextReg]_vars

----------------------------------------------------------------------------
(* Claims about the supervisor *)

\* C1 (second sentence of the claim): over every interleaving of start(),
\* stop(), restart() and the reader, no server's status ever changes from
\* stopped directly to running, nor from running directly to starting.
C1_NoForbiddenEdge ==
    [][\A p \in Ports :
         /\ ~(status[p] = "stopped" /\ status'[p] = "running")
         /\ ~(status[p] = "running" /\ status'[p] = "starting")]_vars

\* The step in which a stop() is called on server p: by a request handler, or
\* by restart().
StopEntered(p) ==
    call'[p].n = call[p].n + 1 /\ call'[p].op \in {"stop", "restart"}

\* C2: every stop() called on a server that is running or starting and holds
\* a process handle returns with status stopped and the handle cleared,
\* whatever the process does (exits on the directive, ignores directive and
\* termination signal, or has exited before the directive is written).
C2_StopAlwaysStops ==
    [][\A p \in Ports :
         /\ (StopEntered(p) /\ status[p] \in {"running", "starting"} /\ process[p] # 0
               /\ op'[p].pc # "stop_wait")
              => (status'[p] = "stopped" /\ process'[p] = 0)
         /\ (op[p].pc = "stop_wait" /\ op'[p].pc # "stop_wait")
              => (status'[p] = "stopped" /\ process'[p] = 0)]_vars

\* The step in which a start() is called on server p: by a request handler,
\* or by restart() after its settle delay.
StartEntered(p) ==
    \/ call'[p].n = call[p].n + 1 /\ call'[p].op = "start"
    \/ op[p].pc = "sleep" /\ op'[p].pc # "sleep"

\* C3: start() called on a server whose status is running returns failure,
\* spawns no process, and leaves the status and the process handle unchanged.
C3_StartWhileRunningRefused ==
    [][\A p \in Ports :
         (StartEntered(p) /\ status[p] = "running")
            => /\ op'[p] = Idle
               /\ ret'[p].n = call'[p].n /\ ~ret'[p].ok
               /\ procs' = procs
               /\ status'[p] = "running"
               /\ process'[p] = process[p]]_vars

\* A start() has just been refused at its guard on a running server that
\* holds a live process.
C3_Witness ==
    \E p \in Ports :
        /\ call[p].op = "start" /\ op[p] = Idle
        /\ ret[p] = [n |-> call[p].n, ok |-> FALSE, line |-> 162]
        /\ status[p] = "running" /\ process[p] # 0

\* The process held by server p has exited without having been terminated by
\* a stop(), and no control operation is in progress on p.
ExitedAlone(p) ==
    /\ process[p] # 0
    /\ ~procs[process[p]].alive /\ ~procs[process[p]].terminated
    /\ op[p] = Idle

\* C13: when the process of a server exits on its own, so that its output
\* stream closes, and no stop() is in progress, the status of the server and
\* its persisted status become error (unless a control operation is called
\* on the server first).
C13_StreamClosureYieldsError ==
    \A p \in Ports :
        [](ExitedAlone(p)
             => <>((status[p] = "error" /\ db_status[p] = "error") \/ op[p] # Idle))

\* The step in which the reader thread of process i sets the status that the
\* line it has read calls for.
ReaderSets(i) ==
    i \in DOMAIN procs /\ procs[i].rd = "set" /\ procs'[i].rd = "run"

\* C14: once the status of a server is error, no output line read by a
\* reader thread changes it.
C14_ErrorAbsorbsOutput ==
    [][\A i \in 1..MaxCalls :
         (ReaderSets(i) /\ status[procs[i].port] = "error")
            => status'[procs[i].port] = "error"]_vars

\* A process of server p has written a line containing both "Done" and
\* "For help" that its reader has not read yet.
InitializedLineUnread(p) ==
    \E i \in DOMAIN procs :
        /\ procs[i].port = p
        /\ \E k \in DOMAIN procs[i].out :
               ~procs[i].out[k].blank /\ {"Done", "For help"} \subseteq procs[i].out[k].marks

\* The last control operation called on server p is a stop() or a restart().
StopIssued(p) == call[p].op \in {"stop", "restart"}

\* C15: when a process spawned by a successful start() has written a line
\* containing "Done" and "For help" while the status is starting, then, the
\* reader threads being scheduled, the status eventually becomes running,
\* unless a stop() is called first.
C15_InitializedLineLeadsToRunning ==
    \A p \in Ports :
        [](( InitializedLineUnread(p) /\ status[p] = "starting" /\ ~StopIssued(p))
              => <>(status[p] = "running" \/ StopIssued(p)))

\* The reader has set the status running for the line of the process that the
\* last start() spawned, and no stop() was called.
C15_Witness ==
    \E p \in Ports :
        /\ status[p] = "running" /\ db_status[p] = "running" /\ ~StopIssued(p)
        /\ process[p] # 0 /\ procs[process[p]].emitted = 1 /\ procs[process[p]].out = <<>>
        /\ server_logs[p][Len(server_logs[p])].text = OwnText("Server started successfully")
        /\ ret[p].ok

\* C16: whenever a reader thread changes the status because of an output
\* line, the log record of that line is in the log before the change.
C16_RecordBeforeStatus ==
    [][\A i \in 1..MaxCalls :
         ReaderSets(i)
            => \E k \in DOMAIN server_logs[procs[i].port] :
                  LET rec == server_logs[procs[i].port][k] IN
                     /\ rec.text.src = "process" /\ rec.text.nr = procs[i].cur
                     /\ LineVerdict(rec.text) = status'[procs[i].port]]_vars

\* A reader has set the status error for a line containing "Failed to start".
C16_Witness ==
    \E p \in Ports :
        /\ status[p] = "error"
        /\ Len(server_logs[p]) >= 2
        /\ server_logs[p][Len(server_logs[p])].text = OwnText("Server failed to start")
        /\ server_logs[p][Len(server_logs[p]) - 1].text.marks = {"Failed to start"}

\* Ranks of the lines of process output in the log of server p, in log order.
RECURSIVE OutputRanks(_)
OutputRanks(logs) ==
    IF logs = <<>> THEN <<>>
    ELSE IF logs[1].text.src = "process"
         THEN <<logs[1].text.nr>> \o OutputRanks(Tail(logs))
         ELSE OutputRanks(Tail(logs))

\* C17: the log records of one server that derive from process output are
\* in the log in the order in which the lines were written.
C17_OutputInEmissionOrder ==
    \A p \in Ports :
        LET r == OutputRanks(server_logs[p]) IN
            \A j, k \in DOMAIN r : j < k => r[j] < r[k]

----------------------------------------------------------------------------
(* Claims about the registry *)

\* The step in which a control operation on server p, or the rehydration of
\* p at startup, returns.
Returned(p) == ret'[p] # ret[p]

\* C18: whenever a control operation on a registered server or the
\* rehydration at startup has returned, the status in the row of the server
\* equals the status of the server in memory.
C18_PersistedStatusInSync ==
    [][\A p \in Ports :
         (Returned(p) /\ p \in servers') => db_status'[p] = status'[p]]_vars

\* C19: over every interleaving of create requests for one port, a server
\* object is constructed (and with it the row of the port written) and
\* registered only while no server is registered on the port, so that at
\* most one object is created and registered and the registered server is
\* left as it was.
C19_OneServerPerPort ==
    [][\A r \in Requesters :
         /\ (reqs[r].pc = "construct" /\ reqs'[r].pc = "register")
               => reqs[r].port \notin servers
         /\ (reqs[r].pc = "register" /\ reqs'[r].pc = "done")
               => reqs[r].port \notin servers]_vars

\* The last operation on port p is a delete that returned success.
Deleted(p) ==
    call[p].op = "delete" /\ op[p] = Idle /\ ret[p].n = call[p].n /\ ret[p].ok

\* Port p is in neither the registry nor table servers and has no log record.
Removed(p) == p \notin servers /\ db_status[p] = Absent /\ server_logs[p] = <<>>

\* C20: when delete_server returns success the port is in neither the
\* registry nor table servers and has no log record, and this stays so until
\* a create request acts on the port.
C20_DeleteLeavesNothing ==
    [][\A p \in Ports :
         /\ (op[p].pc = "delete_rows" /\ Deleted(p)') => Removed(p)'
         /\ (Deleted(p) /\ Removed(p) /\ Deleted(p)' /\ reqs' = reqs) => Removed(p)']_vars

\* C21: a stop() called while the status is stopped, stopping or error writes
\* nothing to a process, leaves the status and the process handle as they
\* are, and, when a request handler called it, returns failure.
C21_StopRefusedUnlessUp ==
    [][\A p \in Ports :
         (StopEntered(p) /\ status[p] \in {"stopped", "stopping", "error"})
            => /\ procs' = procs
               /\ status'[p] = status[p] /\ db_status'[p] = db_status[p]
               /\ process'[p] = process[p]
               /\ call'[p].op = "stop"
                     => (op'[p] = Idle /\ ret'[p].n = call'[p].n /\ ~ret'[p].ok)]_vars

\* The step in which send_command() is called on server p.
SendEntered(p) == call'[p].n = call[p].n + 1 /\ call'[p].op = "send_command"

\* C22: send_command() writes to the input of a process only when the status
\* is running and the server holds a process handle, and what it writes is
\* the command; in every other case it returns failure and writes nothing.
C22_CommandOnlyWhenRunning ==
    [][\A p \in Ports :
         SendEntered(p)
            => /\ ~(status[p] = "running" /\ process[p] # 0)
                     => (procs' = procs /\ ret'[p].n = call'[p].n /\ ~ret'[p].ok)
               /\ procs' # procs
                     => /\ status[p] = "running" /\ process[p] # 0
                        /\ \E c \in Commands :
                              procs' = [procs EXCEPT ![process[p]].stdin = Append(@, c)]
                        /\ ret'[p].n = call'[p].n /\ ret'[p].ok
               /\ status' = status /\ process' = process]_vars

\* A command was written to the process of a running server.
C22_Witness ==
    \E p \in Ports :
        /\ call[p].op = "send_command" /\ ret[p] = [n |-> call[p].n, ok |-> TRUE, line |-> 471]
        /\ status[p] = "running" /\ process[p] # 0
        /\ procs[process[p]].stdin = <<"list">>

\* The return statements of start().
StartReturns == {162, 175, 220, 226}

\* C23: within restart(), stop() always returns into the settle delay, whether
\* it succeeded or failed; after the delay start() is called; and restart()
\* returns only from a return statement of that start(), with its value.
C23_RestartAlwaysStarts ==
    [][\A p \in Ports :
         /\ (StopEntered(p) /\ call'[p].op = "restart")
               => op'[p].name = "restart" /\ op'[p].pc \in {"stop_wait", "sleep"}
         /\ (op[p].name = "restart" /\ op[p].pc = "stop_wait" /\ op'[p] # op[p])
               => op'[p].name = "restart" /\ op'[p].pc = "sleep"
         /\ (op[p].name = "restart" /\ op[p].pc = "sleep" /\ op'[p] # op[p])
               => \/ op'[p].name = "restart" /\ op'[p].pc = "start_run"
                  \/ /\ op'[p] = Idle /\ status[p] = "running"
                     /\ ret'[p] = [n |-> call[p].n, ok |-> FALSE, line |-> 162]
         /\ (op[p].name = "restart" /\ op'[p] = Idle)
               => /\ op[p].pc \in {"sleep", "start_run"}
                  /\ ret'[p].n = call[p].n /\ ret'[p].line \in StartReturns
                  /\ ret'[p].ok <=> ret'[p].line = 220]_vars

\* A restart() whose stop() failed is inside its start().
C23_Witness ==
    \E p \in Ports :
        /\ op[p].name = "restart" /\ op[p].pc = "start_run"
        /\ op[p].sret \in {427, 457}

\* The return statements of stop() that return failure.
StopFailures == {427, 457}

\* C24: when stop() returns failure inside restart(), a log record reporting
\* the failure of the stop is appended to the log of the server before
\* restart() goes on to start().
C24_StopFailureLogged ==
    [][\A p \in Ports :
         (op'[p].name = "restart" /\ op'[p].pc = "sleep" /\ op[p].pc # "sleep"
             /\ op'[p].sret \in StopFailures)
            => /\ Len(server_logs'[p]) = Len(server_logs[p]) + 1
               /\ server_logs'[p][Len(server_logs'[p])].text = OwnText("Error stopping server")]_vars

\* C25: stop() sends the termination signal to a process only after it has
\* written the shutdown directive to it and all polls of the wait loop have
\* found it alive; it sends the kill only after the termination signal and
\* the wait that follows, to a process still alive; and a process that has
\* exited is sent no signal.
C25_SignalsEscalateInOrder ==
    [][\A i \in DOMAIN procs :
         LET p == procs[i].port IN
         /\ (~procs[i].terminated /\ procs'[i].terminated)
               => /\ op[p].pc = "stop_term" /\ process[p] = i
                  /\ procs[i].alive /\ procs[i].stdin = <<"stop">>
                  /\ polls[p] = Polls
         /\ (~procs[i].killed /\ procs'[i].killed)
               => /\ op[p].pc = "stop_kill" /\ process[p] = i
                  /\ procs[i].alive /\ procs[i].terminated
         /\ ~procs[i].alive
               => /\ procs'[i].terminated = procs[i].terminated
                  /\ procs'[i].killed = procs[i].killed]_vars

\* A process that ignored the directive and the termination signal was killed.
C25_Witness ==
    \E i \in DOMAIN procs :
        /\ procs[i].terminated /\ procs[i].killed /\ ~procs[i].alive
        /\ status[procs[i].port] = "stopped" /\ process[procs[i].port] = 0

\* C26: for paper, purpur and velocity and every list of builds the build
\* server returns, the build in the download URL is the last element of
\* the list.
C26_LatestBuildIsLast ==
    (build.pc = "resolved" /\ build.resp.all # <<>>)
       => /\ ~build.raised
          /\ BuildOf(build.url) = build.resp.all[Len(build.resp.all)]

\* C28: every registered server has a server type that has a repository,
\* and the row of every port names such a type: a create request naming
\* another type registers and persists no server.
C28_KnownProviderOnly ==
    \A p \in Ports :
        /\ p \in servers => attrs[p].server_type \in DOMAIN REPOSITORIES
        /\ db_status[p] # Absent => saved[p].server_type \in DOMAIN REPOSITORIES

----------------------------------------------------------------------------
(* Claims about the artifact cache *)

\* The step in which start() on server p comes back from download_server()
\* and runs to its return.
Acquired(p) == op[p].pc = "start_run" /\ op'[p].pc # "start_run"

\* C11: of two successive successful acquisitions for one server, whatever
\* its type and version, the second returns the path of the first and
\* downloads nothing.
C11_SecondAcquisitionCached ==
    [][\A p \in Ports :
         (Acquired(p) /\ acq[p].path # NoPath /\ acq'[p].path # NoPath)
            => (acq'[p].fetched = 0 /\ acq'[p].path = acq[p].path)]_vars

\* The answers received during the acquisition are a failure of resolution
\* or download for a server of type t and version ver whose directory holds
\* the jar files dir (a modpack that installs no jar fails unless a jar of
\* an earlier installation is there).
AcquisitionFails(t, ver, dir, net) ==
    \/ t = "forge"
    \/ t = "mrpack" /\ (ver # "uploaded:pack.mrpack" \/ net.pack \in {"absent", "exception"})
    \/ t = "mrpack" /\ net.pack = "nojar" /\ dir = {}
    \/ t \notin {"forge", "mrpack"} /\ net.meta \in {"missing", "exception"}
    \/ t \notin {"forge", "mrpack"} /\ net.dl \in {"404", "exception"}

\* C12: when resolution or download fails (unknown server type, version not
\* found, a status other than 200, a network exception) start() returns
\* False from its own return statement, spawns no process, and leaves the
\* status, in memory and persisted, and the process handle as they were.
C12_FailedAcquisitionRefusesStart ==
    [][\A p \in Ports :
         (Acquired(p)
            /\ AcquisitionFails(attrs[p].server_type, attrs[p].version, jars[p],
                                acq'[p].net))
            => /\ op'[p] = Idle
               /\ ret'[p] = [n |-> call[p].n, ok |-> FALSE, line |-> 175]
               /\ procs' = procs
               /\ process' = process
               /\ status' = status
               /\ db_status' = db_status]_vars

\* A second start() of a server in status error has just been refused
\* because the download request failed; the status is still error.
C12_Witness ==
    \E p \in Ports :
        /\ status[p] = "error" /\ op[p] = Idle
        /\ ret[p] = [n |-> 2, ok |-> FALSE, line |-> 175]
        /\ acq[p].n = 2 /\ acq[p].net.dl = "exception"

----------------------------------------------------------------------------
(* Claims about the wizards *)

\* The step in which the bot handles an event of the given kind from user u.
Handled(u, kind) == nev' = nev + 1 /\ ev'.kind = kind /\ ev'.user = u

\* The messages whose content is a cancellation token, in some letter case.
CancelInputs == {T_cancel, T_STOP, T_Otmena}

\* C4: at any moment a user has at most one live wizard session, counting
\* creation and plugin-install sessions together.
C4_OneSessionPerUser ==
    \A u \in Users : ~(u \in DOMAIN setup_sessions /\ u \in DOMAIN plugin_sessions)

\* C5: a wizard-start request made while the user already has a session of
\* that wizard is refused and leaves both session tables exactly as they
\* were, so the existing session keeps its step and its record.
C5_RefusedStartKeepsSession ==
    [][\A u \in Users :
         /\ (Handled(u, "server_create") /\ u \in DOMAIN setup_sessions)
              => /\ ev'.reply = "setup_already_active"
                 /\ setup_sessions' = setup_sessions
                 /\ plugin_sessions' = plugin_sessions
         /\ (Handled(u, "server_install_plugin") /\ u \in DOMAIN plugin_sessions)
              => /\ ev'.reply \in {"plugin_already_active", "server_not_found"}
                 /\ setup_sessions' = setup_sessions
                 /\ plugin_sessions' = plugin_sessions]_vars

\* A /server_create has just been refused for a user whose creation session
\* had already taken a port and stands, untouched, at step 2.
C5_Witness ==
    /\ ev.kind = "server_create" /\ ev.reply = "setup_already_active"
    /\ ev.user \in DOMAIN setup_sessions
    /\ setup_sessions[ev.user] = [NewSetupSession EXCEPT !.step = 2, !.port = 26000]

\* C6: after a user who has a live session sends a cancellation token, that
\* user has no live session of either wizard.
C6_CancelLeavesNoSession ==
    [][\A u \in Users :
         (/\ Handled(u, "message")
          /\ ev'.msg.content \in CancelInputs
          /\ (u \in DOMAIN setup_sessions \/ u \in DOMAIN plugin_sessions))
            => (u \notin DOMAIN setup_sessions' /\ u \notin DOMAIN plugin_sessions')]_vars

\* C7: at step 1 of the creation wizard an input that is not an integer, or
\* an integer outside 25565..26000, leaves the session at step 1 with no
\* port; an integer in the range for which the status request finds no
\* server is recorded as the port and the session advances to step 2.
C7_PortStep ==
    [][\A u \in Users :
         (/\ Handled(u, "message")
          /\ u \in DOMAIN setup_sessions
          /\ setup_sessions[u].step = 1
          /\ ev'.msg.content \notin CancelInputs)
            => /\ ev'.msg.content \notin {T_25565, T_26000}
                    => /\ u \in DOMAIN setup_sessions'
                       /\ setup_sessions'[u] = NewSetupSession
               /\ (ev'.msg.content = T_25565 /\ ev'.net.status # 200)
                    => /\ u \in DOMAIN setup_sessions'
                       /\ setup_sessions'[u] =
                              [NewSetupSession EXCEPT !.step = 2, !.port = 25565]
               /\ (ev'.msg.content = T_26000 /\ ev'.net.status # 200)
                    => /\ u \in DOMAIN setup_sessions'
                       /\ setup_sessions'[u] =
                              [NewSetupSession EXCEPT !.step = 2, !.port = 26000]]_vars

\* The lower bound of the range has just been taken as the port of a
\* creation session, which is now at step 2.
C7_Witness ==
    /\ ev.kind = "message" /\ ev.msg.content = T_25565 /\ ev.net.status = 404
    /\ ev.user \in DOMAIN setup_sessions
    /\ setup_sessions[ev.user].step = 2
    /\ setup_sessions[ev.user].port = 25565

\* The input of the step is one the creation wizard's validation rejects.
SetupInputRejected(session, m, net) ==
    \/ session.step = 1 /\ (m.content \notin {T_25565, T_26000} \/ net.status = 200)
    \/ session.step = 2 /\ m.content # T_Paper
    \/ session.step = 3 /\ m.content = <<>>
    \/ session.step = 4 /\ m.content # T_2G

\* The input of step 1 of the plugin wizard names no file at all.
PluginInputEmpty(session, m) ==
    session.step = 1 /\ m.attachments = <<>> /\ m.content = <<>>

\* The input of the step is one the plugin wizard's validation rejects, other
\* than the empty one.
PluginInputRejected(session, m, net) ==
    \/ /\ session.step = 1
       /\ m.attachments # <<>>
       /\ m.attachments[1] # F_jar
    \/ /\ session.step = 1
       /\ m.attachments = <<>>
       /\ m.content # <<>>
       /\ (m.content # T_url \/ net # [status |-> 200, body |-> <<"b">>])
    \/ /\ session.step = 2
       /\ m.content # T_OK

C9_CompletionDestroysSession ==
    [][\A u \in Users :
         /\ (/\ Handled(u, "message")
             /\ u \in DOMAIN setup_sessions
             /\ setup_sessions[u].step = 4
             /\ ev'.msg.content = T_2G)
              => /\ ev'.request =
                        [to |-> "/create_server",
                         data |-> [port |-> setup_sessions[u].port,
                                   version |-> setup_sessions[u].version,
                                   server_type |-> setup_sessions[u].server_type,
                                   memory |-> T_2G, auto_start |-> TRUE]]
                 /\ u \notin DOMAIN setup_sessions'
         /\ (/\ Handled(u, "message")
             /\ u \notin DOMAIN setup_sessions
             /\ u \in DOMAIN plugin_sessions
             /\ plugin_sessions[u].step = 2
             /\ ev'.msg.content = T_OK)
              => /\ ev'.request.to = "upload"
                 /\ u \notin DOMAIN plugin_sessions'
         /\ (Handled(u, "message") /\ ev'.request.to = "/create_server")
              => u \notin DOMAIN setup_sessions'
         /\ (Handled(u, "message") /\ ev'.request.to = "upload")
              => u \notin DOMAIN plugin_sessions']_vars

\* A creation request has just failed, and the user's creation session is
\* gone.
C9_Witness ==
    /\ ev.kind = "message" /\ ev.request.to = "/create_server"
    /\ ev.net.status = 400
    /\ ev.user \notin DOMAIN setup_sessions

\* The file names that end in .jar, whatever the letter case.
JarNames == {F_jar.filename, <<"P", ".", "J", "A", "R">>}

\* C10: an upload is made only on an affirmative reply to a plugin session
\* at step 2, a session is at step 2 only with a file named .jar taken at
\* step 1, and the upload sends that file; any other reply at step 2 uploads
\* nothing.
C10_UploadOnlyConfirmedJar ==
    [][\A u \in Users :
         /\ (Handled(u, "message") /\ ev'.request.to = "upload")
              => /\ u \in DOMAIN plugin_sessions
                 /\ plugin_sessions[u].step = 2
                 /\ plugin_sessions[u].filename \in JarNames
                 /\ ev'.msg.content = T_OK
                 /\ ev'.request.file_data.filename = plugin_sessions[u].filename
                 /\ ev'.request.file_data.bytes = plugin_sessions[u].file_content
                 /\ ev'.request.port = plugin_sessions[u].port
         /\ (/\ Handled(u, "message")
             /\ u \notin DOMAIN setup_sessions
             /\ u \in DOMAIN plugin_sessions
             /\ plugin_sessions[u].step = 2
             /\ ev'.msg.content # T_OK)
              => ev'.request = NoRequest
         /\ (u \in DOMAIN plugin_sessions' /\ plugin_sessions'[u].step = 2
               /\ (u \notin DOMAIN plugin_sessions
                     \/ plugin_sessions[u] # plugin_sessions'[u]))
              => /\ Handled(u, "message")
                 /\ u \in DOMAIN plugin_sessions
                 /\ plugin_sessions[u].step = 1
                 /\ plugin_sessions'[u].filename \in JarNames
                 /\ \/ ev'.msg.attachments = <<F_jar>>
                    \/ /\ ev'.msg = [content |-> T_url, attachments |-> <<>>]
                       /\ ev'.net = [status |-> 200, body |-> <<"b">>]]_vars

\* The file downloaded from a URL at step 1 has just been uploaded on the
\* user's "OK".
C10_Witness ==
    /\ ev.kind = "message" /\ ev.msg.content = T_OK
    /\ ev.request.to = "upload"
    /\ ev.request.file_data.filename = <<"P", ".", "J", "A", "R">>
    /\ ev.request.file_data.path = "mods"


\* C29: at step 1 of the creation wizard, with src/main.py answering the
\* status request, an input naming a port on which a server is registered
\* leaves the session at step 1 with no port recorded.
C29_TakenPortRejected ==
    [][\A u \in Users :
         (/\ Handled(u, "message")
          /\ u \in DOMAIN setup_sessions
          /\ setup_sessions[u].step = 1
          /\ ev'.msg.content = T_25565
          /\ 25565 \in servers)
            => /\ u \in DOMAIN setup_sessions'
               /\ setup_sessions'[u] = NewSetupSession]_vars

\* C30: the step index of a wizard session starts at 1, lies in 1..4 for a
\* creation session and in 1..2 for a plugin session, and from one state to
\* the next of the same session it either stays or grows by exactly one.
C30_StepIndexMonotone ==
    [][\A u \in Users :
         /\ (u \in DOMAIN setup_sessions') =>
               /\ setup_sessions'[u].step \in 1..4
               /\ IF u \in DOMAIN setup_sessions
                  THEN setup_sessions'[u].step \in
                         {setup_sessions[u].step, setup_sessions[u].step + 1}
                  ELSE setup_sessions'[u].step = 1
         /\ (u \in DOMAIN plugin_sessions') =>
               /\ plugin_sessions'[u].step \in 1..2
               /\ IF u \in DOMAIN plugin_sessions
                  THEN plugin_sessions'[u].step \in
                         {plugin_sessions[u].step, plugin_sessions[u].step + 1}
                  ELSE plugin_sessions'[u].step = 1]_vars

\* The providers the creation wizard lists at step 2.
WizardProviders ==
    {<<"v", "a", "n", "i", "l", "l", "a">>, <<"p", "a", "p", "e", "r">>,
     <<"p", "u", "r", "p", "u", "r">>, <<"f", "a", "b", "r", "i", "c">>,
     <<"m", "r", "p", "a", "c", "k">>}

\* The texts that match ^\d+[MG]$.
DigitsThenUnit(t) ==
    /\ t # None
    /\ Len(t) >= 2
    /\ t[Len(t)] \in {"M", "G"}
    /\ \A i \in 1..(Len(t) - 1) :
          t[i] \in {"0", "1", "2", "3", "4", "5", "6", "7", "8", "9"}

\* C31: the creation wizard asks for a server only from a session at step 4,
\* with the port, provider and version that session holds and the memory
\* just given: the port is an integer of 25565..26000, the provider one of
\* the five listed, the version not empty, the memory matches ^\d+[MG]$; and
\* a session holds a port from step 2 on, a provider from step 3 on and a
\* version at step 4, each written when its own step accepted an input.
C31_CreateRecordValidated ==
    /\ [](\A u \in DOMAIN setup_sessions :
            LET s == setup_sessions[u]
            IN /\ s.step >= 2 => s.port \in 25565..26000
               /\ s.step >= 3 => s.server_type \in WizardProviders
               /\ s.step >= 4 => s.version # None /\ s.version # <<>>)
    /\ [][\A u \in Users :
            (Handled(u, "message") /\ ev'.request.to = "/create_server")
              => /\ u \in DOMAIN setup_sessions
                 /\ setup_sessions[u].step = 4
                 /\ ev'.request.data.port = setup_sessions[u].port
                 /\ ev'.request.data.server_type = setup_sessions[u].server_type
                 /\ ev'.request.data.version = setup_sessions[u].version
                 /\ ev'.request.data.port \in 25565..26000
                 /\ ev'.request.data.server_type \in WizardProviders
                 /\ ev'.request.data.version # <<>>
                 /\ ev'.request.data.version # None
                 /\ DigitsThenUnit(ev'.request.data.memory)
                 /\ ev'.request.data.memory = Strip(ev'.msg.content)]_vars

\* A server has just been asked for on port 26000, as a paper server.
C31_Witness ==
    /\ ev.kind = "message" /\ ev.request.to = "/create_server"
    /\ ev.request.data.port = 26000
    /\ ev.request.data.server_type = <<"p", "a", "p", "e", "r">>
    /\ ev.request.data.memory = T_2G

\* C32: every start() that has been entered returns, also when a metadata or
\* download endpoint never answers, and then with failure and the status it
\* found.
C32_StartReturnsDespiteSilence ==
    \A p \in Ports : (op[p].name = "start" /\ op[p] # Idle) ~> (op[p] = Idle)

\* A step is one of server p: a control operation of p is invoked, goes on
\* or returns, or a process spawned for p, or its reader thread, moves.
StepOf(p) ==
    \/ call'[p] # call[p]
    \/ op'[p] # op[p]
    \/ ret'[p] # ret[p]
    \/ \E i \in DOMAIN procs' :
          procs'[i].port = p /\ (i \notin DOMAIN procs \/ procs'[i] # procs[i])

\* C33: a step of start(), stop(), restart(), send_command() or the reader
\* of the server on port p leaves the status, the process handle, the row of
\* table servers and the log records of every other server as they were.
C33_OtherServersUntouched ==
    [][\A p \in Ports : \A q \in Ports \ {p} :
         StepOf(p) => /\ status'[q] = status[q]
                      /\ process'[q] = process[q]
                      /\ db_status'[q] = db_status[q]
                      /\ saved'[q] = saved[q]
                      /\ server_logs'[q] = server_logs[q]
                      /\ ~StepOf(q)]_vars

\* The server on 25566 is running, its reader having seen the line that
\* says so, and a process has been spawned for the server on 25565.
C33_Witness ==
    /\ status[25566] = "running" /\ process[25566] # 0
    /\ status[25565] = "starting" /\ process[25565] # 0
    /\ server_logs[25565] # <<>> /\ server_logs[25566] # <<>>

\* No call of stop() or start() can do anything for the server on port p:
\* its status is running, so start() returns at line 162; and it holds no
\* handle, so stop() returns at line 427, or the handle is of a process that
\* has exited, so the write of stop() fails and stop() returns at line 457;
\* and no process of the server is left whose output could change the status.
NoWayOut(p) ==
    /\ p \in servers
    /\ op[p] = Idle
    /\ status[p] = "running"
    /\ process[p] # 0 => process[p] \in DOMAIN procs
    /\ \A i \in DOMAIN procs :
          procs[i].port = p => ~procs[i].alive /\ procs[i].out = <<>> /\ procs[i].rd = "run"

\* Once no call can do anything for a server it stays so: whatever is called
\* on it returns failure and changes neither status nor handle.
DeadEndPersists ==
    [][\A p \in Ports :
         NoWayOut(p) => /\ status'[p] = status[p]
                        /\ process'[p] = process[p]
                        /\ (ret'[p] # ret[p] => ~ret'[p].ok)
                        /\ (op'[p] = Idle => NoWayOut(p)')]_vars

\* C34: no server is ever in a state from which no sequence of stop() and
\* start() calls leads to a start() that succeeds.
C34_NoDeadEnd == \A p \in Ports : ~NoWayOut(p)

\* The processes spawned for the server on port p that are alive.
AliveOf(p) == {i \in DOMAIN procs : procs[i].port = p /\ procs[i].alive}

\* C35: of the processes spawned for one server at most one is alive, and
\* start() spawns none while one is.
C35_OneLiveProcessPerServer ==
    /\ [](\A p \in Ports : Cardinality(AliveOf(p)) <= 1)
    /\ [][\A p \in Ports :
            (Len(procs') > Len(procs) /\ procs'[Len(procs')].port = p)
               => AliveOf(p) = {}]_vars

\* C36: whenever no control operation is in progress on a server, a status
\* of starting, running or stopping goes with a process handle and a status
\* of stopped with none.
C36_StatusMatchesHandle ==
    \A p \in servers :
        op[p] = Idle =>
            /\ status[p] \in {"starting", "running", "stopping"} => process[p] # 0
            /\ status[p] = "stopped" => process[p] = 0

\* C37: however the handlers of one user's messages overlap, the creation
\* request of a session is made once at most (none is made while a handler
\* that made it for the same session is still at work), and no handler ends
\* in an exception because its session is gone.
C37_CompletionOnceNoFailure ==
    [][\A u \in Users :
         (nev' = nev + 1 /\ ev'.user = u)
            => /\ ev'.request.to = "/create_server"
                    => ~(asking[u].busy /\ asking[u].step = 4 /\ asking[u].live)
               /\ ev'.reply # "KeyError"]_vars

\* C38: when a create request is answered with success, and when the load
\* of a row at startup is done, the row of the server holds the auto_start
\* value the object holds (and so for memory, motd and max_players, which
\* the same statements set and save).
C38_SettingsPersisted ==
    [][/\ \A r \in Requesters :
            (reqs[r].pc = "register" /\ reqs'[r].pc = "done" /\ reqs'[r].code = 200)
               => saved'[reqs'[r].port].auto_start = attrs'[reqs'[r].port].auto_start
       /\ \A p \in Ports :
            (call'[p] # call[p] /\ call'[p].op = "load" /\ p \in servers')
               => saved'[p].auto_start = attrs'[p].auto_start]_vars

\* C39: a download that fails part-way through the body leaves no file at
\* the cache path, and the start() that follows asks the network again.
C39_NoTruncatedArtifact ==
    [][\A p \in Ports :
         /\ (Acquired(p) /\ acq'[p].net.dl = "cut") => jars'[p] = jars[p]
         /\ (Acquired(p) /\ acq[p].net.dl = "cut") => acq'[p].net.meta # "unused"]_vars

\* C40: when delete_server returns success for a port, no process spawned
\* for that port is alive, whatever the stop() it called has returned.
C40_DeleteLeavesNoProcess ==
    [][\A p \in Ports :
         (ret'[p] # ret[p] /\ call[p].op = "delete" /\ ret'[p].ok)
            => \A i \in DOMAIN procs' : procs'[i].port = p => ~procs'[i].alive]_vars

=============================================================================
